---- MODULE Spec2Model ----
(***************************************************************************)
(* A model of verdant (src/src/main.rs): the markdown compression          *)
(* pipeline, the cross-document deduplicator, the tag extractor and the    *)
(* run of main() that wires them together.                                 *)
(*                                                                         *)
(* Text is a sequence of characters; a character is a one-character        *)
(* string.  The backtick and the glyphs outside ASCII are named            *)
(* characters (BT, ARROW, ...).  String::len() counts UTF-8 bytes, so      *)
(* every character carries its encoded width (CharBytes).                  *)
(***************************************************************************)
EXTENDS Integers, Sequences, FiniteSets, TLC

VARIABLES
    pc,                 \* position of the run inside main() / the function under study
    args,               \* the parsed Args record (level, model, ai_mode, ...)
    md_files,           \* discovered files, in discovery order
    files_with_time,    \* Vec<(DirEntry, SystemTime)> of read_all_files_with_sorting
    all_files_content,  \* Vec<(filename, content)> built by read_all_files_with_sorting
    compress_calls,     \* the (filename, content) pairs handed to the per-file compressor so far
    vrd_files,          \* the VrdFile records of generate_vrd_content
    output,             \* compressed_content: the payload compress_all_content returns
    seen_paragraphs,    \* HashSet of trimmed paragraphs of remove_duplicate_content
    deduplicated,       \* output vector of remove_duplicate_content
    duplicates_removed, \* counter of remove_duplicate_content
    dedup_input,        \* the vector remove_duplicate_content was called with
    raw_content,        \* the text a transform function was called with
    compressed,         \* the working text of the function (let mut compressed / result)
    applied,            \* the transforms applied to it so far, in order
    trace,              \* the working text after each of them
    vrd_file,           \* the VrdFile record process_file_for_vrd is building
    tags,               \* the HashSet of extract_enhanced_tags_from_content
    tag_vec,            \* its tag_vec
    stats,              \* the CompressionStats of main()
    errors,             \* the paths of the "Error reading"/"Error writing" lines printed so far
    chunk_num,          \* the loop variable of create_chunks
    chunk_files,        \* the fs::write calls made so far: file name, content, outcome
    vrd_content,        \* the payload generate_vrd_content built, before its metadata is filled in
    metadata            \* the VrdMetadata of generate_vrd_content

mainVars ==
    <<args, md_files, files_with_time, all_files_content, compress_calls, vrd_files, output>>

dedupVars == <<seen_paragraphs, deduplicated, duplicates_removed, dedup_input>>

pipeVars == <<raw_content, compressed, applied, trace, vrd_file>>

tagVars == <<tags, tag_vec>>

outVars == <<stats, errors, chunk_num, chunk_files, vrd_content, metadata>>

vars == <<pc, mainVars, dedupVars, pipeVars, tagVars, outVars>>

-----------------------------------------------------------------------------
(* Characters and strings *)

BT == "<backtick>"

\* glyphs outside ASCII, named: U+00E9, U+2192, U+2234, U+2022
EACUTE == "<e-acute>"

\* its capital, U+00C9
EACUTE_UPPER == "<U+00C9>"

ARROW == "<arrow>"

THEREFORE == "<therefore>"

BULLET == "<bullet>"

\* one character of each of the eight ranges of remove_emojis (222-243):
\* U+1F600, U+1F4A1, U+1F680, U+1F1E9, U+2600, U+2713, U+1F914, U+1FA80
GRIN == "<U+1F600>"

BULB == "<U+1F4A1>"

ROCKET == "<U+1F680>"

FLAG_D == "<U+1F1E9>"

SUN == "<U+2600>"

CHECKMARK == "<U+2713>"

THINKING == "<U+1F914>"

YOYO == "<U+1FA80>"

\* glyphs the VRD transforms write: U+2116, U+2191, U+2193, U+27F6, U+2235, U+2260,
\* U+2265, U+2264, U+2248, U+221E, U+03A3, U+2200, U+2203, U+21A6, U+27F9, U+27FA
NUMERO == "<U+2116>"

UPARROW == "<U+2191>"

DOWNARROW == "<U+2193>"

LONGARROW == "<U+27F6>"

BECAUSE == "<U+2235>"

NOTEQUAL == "<U+2260>"

GEQ == "<U+2265>"

LEQ == "<U+2264>"

APPROX == "<U+2248>"

INFINITY == "<U+221E>"

SIGMA == "<U+03A3>"

\* the small letters of SIGMA, U+03C3 and the word-final U+03C2
SIGMA_LOWER == "<U+03C3>"

SIGMA_FINAL == "<U+03C2>"

FORALL == "<U+2200>"

EXISTS == "<U+2203>"

MAPSTO == "<U+21A6>"

IMPLIESARROW == "<U+27F9>"

IFFARROW == "<U+27FA>"

NL == "\n"

CR == "\r"

TAB == "\t"

\* char::is_whitespace, restricted to the characters of the model
WhiteSpace == {" ", TAB, NL, CR}

\* UTF-8 width of a character (str::len counts bytes)
CharBytes(c) ==
    IF c \in {EACUTE, EACUTE_UPPER, SIGMA, SIGMA_LOWER, SIGMA_FINAL} THEN 2
    ELSE IF c \in {ARROW, THEREFORE, BULLET, SUN, CHECKMARK, NUMERO, UPARROW, DOWNARROW,
                   LONGARROW, BECAUSE, NOTEQUAL, GEQ, LEQ, APPROX, INFINITY, FORALL, EXISTS,
                   MAPSTO, IMPLIESARROW, IFFARROW} THEN 3
    ELSE IF c \in {GRIN, BULB, ROCKET, FLAG_D, THINKING, YOYO} THEN 4
    ELSE 1

RECURSIVE ByteLenOf(_, _, _)
\* the bytes of the characters lo..hi of s
ByteLenOf(s, lo, hi) ==
    IF lo > hi THEN 0
    ELSE IF lo = hi THEN CharBytes(s[lo])
    ELSE LET mid == (lo + hi) \div 2
         IN  ByteLenOf(s, lo, mid) + ByteLenOf(s, mid + 1, hi)

\* str::len
ByteLen(s) == ByteLenOf(s, 1, Len(s))

\* n copies of character c
Copies(c, n) == [i \in 1..n |-> c]

\* the sequences over S of length lo to hi
SeqsUpTo(S, lo, hi) == UNION {[1..n -> S] : n \in lo..hi}

\* the least and the greatest element of a non-empty set of numbers
Least(S) == CHOOSE i \in S : \A j \in S : i <= j

Greatest(S) == CHOOSE i \in S : \A j \in S : j <= i

\* the positions of s that hold no white space
NonBlank(s) == {i \in 1..Len(s) : s[i] \notin WhiteSpace}

\* str::trim_start
TrimStart(s) == IF NonBlank(s) = {} THEN <<>> ELSE SubSeq(s, Least(NonBlank(s)), Len(s))

\* str::trim_end
TrimEnd(s) == IF NonBlank(s) = {} THEN <<>> ELSE SubSeq(s, 1, Greatest(NonBlank(s)))

\* str::trim
Trim(s) == TrimEnd(TrimStart(s))

\* str::split(char): "a\n" gives <<"a", "">>, "" gives <<"">>
Split(s, c) ==
    LET seps == {i \in 1..Len(s) : s[i] = c}
        n == Cardinality(seps)
        \* the position of the k-th separator, the ends of the text being two more
        pos(k) == IF k = 0 THEN 0
                  ELSE IF k = n + 1 THEN Len(s) + 1
                  ELSE CHOOSE i \in seps : Cardinality({j \in seps : j < i}) = k - 1
    IN  [k \in 1..(n + 1) |-> SubSeq(s, pos(k - 1) + 1, pos(k) - 1)]

RECURSIVE JoinRange(_, _, _, _)
\* parts[lo], ..., parts[hi] with sep between them
JoinRange(parts, lo, hi, sep) ==
    IF lo > hi THEN <<>>
    ELSE IF lo = hi THEN parts[lo]
    ELSE LET mid == (lo + hi) \div 2
         IN  JoinRange(parts, lo, mid, sep) \o sep \o JoinRange(parts, mid + 1, hi, sep)

\* [&str]::join(sep)
Join(parts, sep) == JoinRange(parts, 1, Len(parts), sep)

StripCR(line) ==
    IF line # <<>> /\ line[Len(line)] = CR THEN SubSeq(line, 1, Len(line) - 1) ELSE line

\* str::lines: split at "\n", a final empty piece is no line, and a "\r"
\* directly before the "\n" belongs to the line ending
Lines(s) ==
    LET pieces == Split(s, NL)
        n == Len(pieces)
    IN  [i \in 1..(IF pieces[n] = <<>> THEN n - 1 ELSE n) |->
            IF i < n THEN StripCR(pieces[i]) ELSE pieces[i]]

-----------------------------------------------------------------------------
(* The regex crate, as far as the program's patterns use it.  A pattern is  *)
(* a tree of records; Match lists the ways a pattern matches at a position  *)
(* in the order of preference of a backtracking matcher, which is the       *)
(* crate's leftmost-first semantics.                                        *)

LowerLetters ==
    <<"a", "b", "c", "d", "e", "f", "g", "h", "i", "j", "k", "l", "m",
      "n", "o", "p", "q", "r", "s", "t", "u", "v", "w", "x", "y", "z">>

UpperLetters ==
    <<"A", "B", "C", "D", "E", "F", "G", "H", "I", "J", "K", "L", "M",
      "N", "O", "P", "Q", "R", "S", "T", "U", "V", "W", "X", "Y", "Z">>

Digits == {"0", "1", "2", "3", "4", "5", "6", "7", "8", "9"}

Range(f) == {f[x] : x \in DOMAIN f}

\* char::to_lowercase
LowerChar(c) ==
    IF c \in Range(UpperLetters)
    THEN LowerLetters[CHOOSE k \in 1..26 : UpperLetters[k] = c]
    ELSE IF c = EACUTE_UPPER THEN EACUTE
    ELSE IF c = SIGMA THEN SIGMA_LOWER
    ELSE c

\* simple case folding, as a pattern under (?i) compares characters
FoldChar(c) == IF c = SIGMA_FINAL THEN SIGMA_LOWER ELSE LowerChar(c)

\* the Unicode properties Cased and Case_Ignorable, restricted to the characters
\* of the model
Cased(c) ==
    c \in Range(LowerLetters) \cup Range(UpperLetters)
          \cup {EACUTE, EACUTE_UPPER, SIGMA, SIGMA_LOWER, SIGMA_FINAL}

CaseIgnorable(c) == c \in {"'", ".", ":", "^", BT}

\* str::to_lowercase writes the capital sigma at place k as the final sigma: a
\* cased character stands before it and none after it, case-ignorable characters
\* skipped
FinalSigmaAt(s, k) ==
    /\ \E j \in 1..(k - 1) :
         /\ Cased(s[j])
         /\ \A i \in (j + 1)..(k - 1) : CaseIgnorable(s[i])
    /\ ~\E j \in (k + 1)..Len(s) :
         /\ Cased(s[j])
         /\ \A i \in (k + 1)..(j - 1) : CaseIgnorable(s[i])

\* str::to_lowercase
ToLower(s) ==
    [k \in 1..Len(s) |->
        IF s[k] = SIGMA
        THEN (IF FinalSigmaAt(s, k) THEN SIGMA_FINAL ELSE SIGMA_LOWER)
        ELSE LowerChar(s[k])]

\* char::to_uppercase
UpperChar(c) ==
    IF c \in Range(LowerLetters)
    THEN UpperLetters[CHOOSE k \in 1..26 : LowerLetters[k] = c]
    ELSE IF c = EACUTE THEN EACUTE_UPPER
    ELSE IF c \in {SIGMA_LOWER, SIGMA_FINAL} THEN SIGMA
    ELSE c

\* str::to_uppercase
ToUpper(s) == [k \in 1..Len(s) |-> UpperChar(s[k])]

\* \w (Unicode aware: the accented letter is a word character)
IsWord(c) ==
    c \in Range(LowerLetters) \cup Range(UpperLetters) \cup Digits
          \cup {"_", EACUTE, EACUTE_UPPER, SIGMA, SIGMA_LOWER, SIGMA_FINAL}

\* pattern constructors
Lit(s) == [t |-> "lit", s |-> s, ci |-> FALSE]

\* a literal under (?i)
LitCI(s) == [t |-> "lit", s |-> s, ci |-> TRUE]

OneOf(S) == [t |-> "set", s |-> S]

NoneOf(S) == [t |-> "nset", s |-> S]

\* [\s\S]
AnyChar == [t |-> "any"]

\* . : any character but the line feed
Dot == [t |-> "nset", s |-> {NL}]

WordChar == [t |-> "w"]

SpaceChar == [t |-> "set", s |-> WhiteSpace]

DigitChar == [t |-> "set", s |-> Digits]

\* ^ and $ without the m flag: start and end of the text
Bol == [t |-> "bol"]

Eol == [t |-> "eol"]

\* \b
WordB == [t |-> "wb"]

Cat(rs) == [t |-> "cat", rs |-> rs]

Alt(rs) == [t |-> "alt", rs |-> rs]

\* r{min,max}, max = -1 for no upper limit
Rep(r, min, max, greedy) == [t |-> "rep", r |-> r, min |-> min, max |-> max, greedy |-> greedy]

Plus(r) == Rep(r, 1, -1, TRUE)

Star(r) == Rep(r, 0, -1, TRUE)

LazyStar(r) == Rep(r, 0, -1, FALSE)

Opt(r) == Rep(r, 0, 1, TRUE)

\* capture group n
Cap(n, r) == [t |-> "cap", n |-> n, r |-> r]

MaxGroups == 3

\* captures of a match: a group that took no part counts as empty text
NoCaps == [n \in 1..MaxGroups |-> <<>>]

LitAt(r, s, i) ==
    /\ i + Len(r.s) - 1 <= Len(s)
    /\ \A k \in 1..Len(r.s) :
         IF r.ci THEN FoldChar(s[i + k - 1]) = FoldChar(r.s[k])
         ELSE s[i + k - 1] = r.s[k]

WordBoundaryAt(s, i) ==
    (i > 1 /\ IsWord(s[i - 1])) # (i <= Len(s) /\ IsWord(s[i]))

RECURSIVE FlattenRange(_, _, _)
\* parts[lo] \o ... \o parts[hi]
FlattenRange(parts, lo, hi) ==
    IF lo > hi THEN <<>>
    ELSE IF lo = hi THEN parts[lo]
    ELSE LET mid == (lo + hi) \div 2
         IN  FlattenRange(parts, lo, mid) \o FlattenRange(parts, mid + 1, hi)

\* "let x = first; next(x)": first is computed before next begins
LetThen(first, next(_)) == IF first = <<>> THEN next(<<>>) ELSE next(first)

\* the concatenation of a sequence of sequences
Flatten(parts) == FlattenRange(parts, 1, Len(parts))

\* a pattern that matches exactly one character
OneChar(r) == r.t \in {"set", "nset", "any", "w"} \/ (r.t = "lit" /\ Len(r.s) = 1)

\* character c is matched by the one-character pattern r
CharMatches(r, c) ==
    CASE r.t = "set" -> c \in r.s
      [] r.t = "nset" -> c \notin r.s
      [] r.t = "any" -> TRUE
      [] r.t = "w" -> IsWord(c)
      [] r.t = "lit" -> IF r.ci THEN FoldChar(c) = FoldChar(r.s[1]) ELSE c = r.s[1]

\* the number of characters from position i on that r matches one after another
RunLength(r, s, i) ==
    Least({n \in 0..(Len(s) - i + 1) : i + n > Len(s) \/ ~CharMatches(r, s[i + n])})

RECURSIVE Match(_, _, _, _)
RECURSIVE MatchCat(_, _, _, _, _)
RECURSIVE MatchRep(_, _, _, _, _)

\* the matches of r starting at position i of s, best first: each the position
\* after the match and the captures
Match(r, s, i, caps) ==
    LET one == <<[i |-> i + 1, caps |-> caps]>>
        here == <<[i |-> i, caps |-> caps]>>
    IN  CASE r.t = "lit" -> IF LitAt(r, s, i) THEN <<[i |-> i + Len(r.s), caps |-> caps]>> ELSE <<>>
          [] r.t = "set" -> IF i <= Len(s) /\ s[i] \in r.s THEN one ELSE <<>>
          [] r.t = "nset" -> IF i <= Len(s) /\ s[i] \notin r.s THEN one ELSE <<>>
          [] r.t = "any" -> IF i <= Len(s) THEN one ELSE <<>>
          [] r.t = "w" -> IF i <= Len(s) /\ IsWord(s[i]) THEN one ELSE <<>>
          [] r.t = "bol" -> IF i = 1 THEN here ELSE <<>>
          [] r.t = "eol" -> IF i = Len(s) + 1 THEN here ELSE <<>>
          [] r.t = "wb" -> IF WordBoundaryAt(s, i) THEN here ELSE <<>>
          [] r.t = "cat" -> MatchCat(r.rs, 1, s, i, caps)
          [] r.t = "alt" ->
                \* the earlier alternative is preferred
                Flatten([k \in 1..Len(r.rs) |-> Match(r.rs[k], s, i, caps)])
          [] r.t = "rep" -> MatchRep(r, 0, s, i, caps)
          [] r.t = "cap" ->
                LET ms == Match(r.r, s, i, caps)
                IN  [k \in 1..Len(ms) |->
                        [i |-> ms[k].i,
                         caps |-> [ms[k].caps EXCEPT ![r.n] = SubSeq(s, i, ms[k].i - 1)]]]

\* rs[k], rs[k+1], ... in sequence: for each way rs[k] matches, the ways the rest
\* matches
MatchCat(rs, k, s, i, caps) ==
    IF k > Len(rs) THEN <<[i |-> i, caps |-> caps]>>
    ELSE LET ms == Match(rs[k], s, i, caps)
         IN  Flatten([j \in 1..Len(ms) |-> MatchCat(rs, k + 1, s, ms[j].i, ms[j].caps)])

\* a repetition that has matched count times so far: a greedy one prefers to go
\* on, a lazy one to stop
MatchRep(r, count, s, i, caps) ==
    IF OneChar(r.r)
    THEN \* the repetition of one character: every length from min to the run's
         LET run == RunLength(r.r, s, i)
             hi == IF r.max = -1 \/ run < r.max THEN run ELSE r.max
         IN  [k \in 1..(IF hi < r.min THEN 0 ELSE hi - r.min + 1) |->
                 [i |-> i + (IF r.greedy THEN hi - k + 1 ELSE r.min + k - 1), caps |-> caps]]
    ELSE LET stop == IF count >= r.min THEN <<[i |-> i, caps |-> caps]>> ELSE <<>>
             ms == IF r.max = -1 \/ count < r.max THEN Match(r.r, s, i, caps) ELSE <<>>
             more == Flatten([j \in 1..Len(ms) |->
                                 MatchRep(r, count + 1, s, ms[j].i, ms[j].caps)])
         IN  IF r.greedy THEN more \o stop ELSE stop \o more

\* the match that starts at start and is the way best of matching there
MatchFound(start, best) == <<[start |-> start, end |-> best.i, caps |-> best.caps]>>

\* the preferred match at the least of the positions starts where r matches
LeftmostOf(r, s, starts) ==
    IF starts = {} THEN <<>>
    ELSE MatchFound(Least(starts), Match(r, s, Least(starts), NoCaps)[1])

\* Regex::find_at: the leftmost match starting at position from or later; a
\* match is [start, end (exclusive), caps], none is <<>>
FindFrom(r, s, from) ==
    LeftmostOf(r, s, {i \in from..(Len(s) + 1) : Match(r, s, i, NoCaps) # <<>>})

\* the search resumes at the end of a match, one further after an empty match
NextSearch(m) == IF m.end > m.start THEN m.end ELSE m.end + 1

\* the result f of one search: the matches found and the position where the
\* search for the next one begins (0 once there is none)
OneMatch(f) ==
    IF f = <<>> THEN [ms |-> <<>>, next |-> 0] ELSE [ms |-> f, next |-> NextSearch(f[1])]

\* the matches of left, then those of right
BothMatches(left, right) == [ms |-> left.ms \o right.ms, next |-> right.next]

RECURSIVE MatchesUpTo(_, _, _, _)
RECURSIVE MoreMatches(_, _, _, _)

\* the first count successive non-overlapping matches from position from on, and
\* the position where the search for the next one begins (0 once there is none)
MatchesUpTo(r, s, from, count) ==
    IF count < 1 THEN [ms |-> <<>>, next |-> 0]
    ELSE IF count = 1 THEN OneMatch(FindFrom(r, s, from))
    ELSE MoreMatches(r, s, MatchesUpTo(r, s, from, count \div 2), count - count \div 2)

\* the matches left, then up to count further ones
MoreMatches(r, s, left, count) ==
    IF left.next = 0 THEN left
    ELSE BothMatches(left, MatchesUpTo(r, s, left.next, count))

\* Regex::captures_iter: the successive non-overlapping matches (each advances
\* the search, so there are at most Len(s) + 2 - from of them)
MatchesFrom(r, s, from) == MatchesUpTo(r, s, from, Len(s) + 2 - from).ms

AllMatches(r, s) == MatchesFrom(r, s, 1)

\* the text of a match
MatchText(s, m) == SubSeq(s, m.start, m.end - 1)

\* s with each of the matches ms replaced by what rep computes from it
Splice(s, ms, rep(_)) ==
    IF s = <<>> /\ ms = <<>> THEN <<>>
    ELSE Flatten([k \in 1..Len(ms) |->
                     SubSeq(s, IF k = 1 THEN 1 ELSE ms[k - 1].end, ms[k].start - 1)
                     \o rep(ms[k])])
         \o SubSeq(s, IF ms = <<>> THEN 1 ELSE ms[Len(ms)].end, Len(s))

\* Regex::replace_all with the replacement computed from each match by rep
ReplaceAll(r, s, rep(_)) == Splice(s, AllMatches(r, s), rep)

\* replace_all with a fixed replacement text
ReplaceAllWith(r, s, text) == ReplaceAll(r, s, LAMBDA m : text)

\* str::replace(from, to) for a literal from
StrReplace(s, from, to) == ReplaceAllWith(Lit(from), s, to)

\* str::contains
Contains(s, pat) == FindFrom(Lit(pat), s, 1) # <<>>

-----------------------------------------------------------------------------
(* TextNormalizer: remove_excessive_whitespace 536-546, remove_empty_lines 548-553 *)

\* \n{2,}
re_multiple_newlines == Rep(Lit(<<NL>>), 2, -1, TRUE)

\* " {2,}"
re_multiple_spaces == Rep(Lit(<<" ">>), 2, -1, TRUE)

\* " +\n"
re_trailing_spaces == Cat(<<Plus(Lit(<<" ">>)), Lit(<<NL>>)>>)

remove_excessive_whitespace(content) ==
    LetThen(ReplaceAllWith(re_multiple_newlines, content, <<NL>>), LAMBDA r1 :
    LetThen(ReplaceAllWith(re_multiple_spaces, r1, <<" ">>), LAMBDA r2 :
    ReplaceAllWith(re_trailing_spaces, r2, <<NL>>)))

remove_empty_lines(content) ==
    Join(SelectSeq(Lines(content), LAMBDA line : Trim(line) # <<>>), <<NL>>)

-----------------------------------------------------------------------------
(* The transforms of the markdown pipeline *)

emoji_patterns == <<{GRIN}, {BULB}, {ROCKET}, {FLAG_D}, {SUN}, {CHECKMARK}, {THINKING}, {YOYO}>>

RECURSIVE RemoveClassesRange(_, _, _, _)
\* the passes lo..hi; the first half is computed before the second half begins
RemoveClassesRange(table, lo, hi, s) ==
    IF lo > hi THEN s
    ELSE IF lo = hi THEN ReplaceAllWith(OneOf(table[lo]), s, <<>>)
    ELSE LET mid == (lo + hi) \div 2
             half == RemoveClassesRange(table, lo, mid, s)
         IN  IF half = s THEN RemoveClassesRange(table, mid + 1, hi, s)
             ELSE RemoveClassesRange(table, mid + 1, hi, half)

\* the loop of remove_emojis: one replace_all per range, from the k-th on
RemoveClasses(table, k, s) ==
    LetThen(s, LAMBDA text : RemoveClassesRange(table, k, Len(table), text))

remove_emojis(content) == RemoveClasses(emoji_patterns, 1, content)

\* ^#{n} (.+)$
HeaderRe(n) == Cat(<<Bol, Lit(Copies("#", n) \o <<" ">>), Cap(1, Plus(Dot)), Eol>>)

re_h1 == HeaderRe(1)

re_h2 == HeaderRe(2)

re_h3 == HeaderRe(3)

re_h4 == HeaderRe(4)

\* 555-568
compress_headers_aggressively(content) ==
    LetThen(ReplaceAll(re_h1, content, LAMBDA m : <<"H", "1", ":">> \o m.caps[1]), LAMBDA r1 :
    LetThen(ReplaceAll(re_h2, r1, LAMBDA m : <<"H", "2", ":">> \o m.caps[1]), LAMBDA r2 :
    LetThen(ReplaceAll(re_h3, r2, LAMBDA m : <<"H", "3", ":">> \o m.caps[1]), LAMBDA r3 :
    ReplaceAll(re_h4, r3, LAMBDA m : <<"H", "4", ":">> \o m.caps[1]))))

\* \*\*([^*]+)\*\*
re_bold == Cat(<<Lit(<<"*", "*">>), Cap(1, Plus(NoneOf({"*"}))), Lit(<<"*", "*">>)>>)

\* \*([^*]+)\*
re_italic == Cat(<<Lit(<<"*">>), Cap(1, Plus(NoneOf({"*"}))), Lit(<<"*">>)>>)

\* `([^`]+)`
re_code == Cat(<<Lit(<<BT>>), Cap(1, Plus(NoneOf({BT}))), Lit(<<BT>>)>>)

\* 570-581: every match is replaced by its own text
compress_formatting(content) ==
    LetThen(ReplaceAll(re_bold, content, LAMBDA m : <<"*", "*">> \o m.caps[1] \o <<"*", "*">>), LAMBDA r1 :
    LetThen(ReplaceAll(re_italic, r1, LAMBDA m : <<"*">> \o m.caps[1] \o <<"*">>), LAMBDA r2 :
    ReplaceAll(re_code, r2, LAMBDA m : <<BT>> \o m.caps[1] \o <<BT>>)))

Fence == <<BT, BT, BT>>

\* ```(\w+)?\n([\s\S]*?)```
re_code_block ==
    Cat(<<Lit(Fence), Opt(Cap(1, Plus(WordChar))), Lit(<<NL>>),
          Cap(2, LazyStar(AnyChar)), Lit(Fence)>>)

\* 590-593: the non-blank lines of the block, joined by line feeds
NonBlankLines(code) ==
    Join(SelectSeq(Lines(code), LAMBDA line : Trim(line) # <<>>), <<NL>>)

\* the replacement closure of compress_code_blocks, 586-612
CodeBlockReplacement(m, model) ==
    LET lang == m.caps[1]
    IN  LetThen(NonBlankLines(m.caps[2]), LAMBDA compressed_code :
        IF model = "copilot"
        THEN IF lang = <<>>
             THEN <<"C", "O", "D", "E", ":">> \o StrReplace(compressed_code, <<NL>>, <<" ", "|", " ">>)
             ELSE ToUpper(lang) \o <<":">> \o StrReplace(compressed_code, <<NL>>, <<" ", "|", " ">>)
        ELSE IF lang = <<>>
             THEN <<"C", "O", "D", "E", ":">> \o StrReplace(compressed_code, <<NL>>, <<"|">>)
             ELSE <<"C", "O", "D", "E", "(">> \o lang \o <<")", ":">> \o StrReplace(compressed_code, <<NL>>, <<"|">>))

\* 583-613
compress_code_blocks(content, model) ==
    ReplaceAll(re_code_block, content, LAMBDA m : CodeBlockReplacement(m, model))

\* ^[*-] (.+)$
re_list_items == Cat(<<Bol, OneOf({"*", "-"}), Lit(<<" ">>), Cap(1, Plus(Dot)), Eol>>)

\* 615-618
compress_lists_aggressively(content) ==
    ReplaceAll(re_list_items, content, LAMBDA m : <<BULLET>> \o m.caps[1])

\* (?i)\b(p1|p2|...)\b
PhraseRe(phrases) ==
    Cat(<<WordB, Alt([k \in 1..Len(phrases) |-> LitCI(phrases[k])]), WordB>>)

\* the table of remove_fluff_words, 621-627
fluff_patterns ==
    <<<<PhraseRe(<<<<"p", "l", "e", "a", "s", "e", " ", "n", "o", "t", "e", " ", "t", "h", "a", "t">>, <<"i", "t", " ", "s", "h", "o", "u", "l", "d", " ", "b", "e", " ", "n", "o", "t", "e", "d", " ", "t", "h", "a", "t">>,
                   <<"i", "t", " ", "i", "s", " ", "i", "m", "p", "o", "r", "t", "a", "n", "t", " ", "t", "o", " ", "n", "o", "t", "e", " ", "t", "h", "a", "t">>>>), <<>>>>,
      <<PhraseRe(<<<<"a", "s", " ", "m", "e", "n", "t", "i", "o", "n", "e", "d", " ", "a", "b", "o", "v", "e">>, <<"a", "s", " ", "m", "e", "n", "t", "i", "o", "n", "e", "d", " ", "e", "a", "r", "l", "i", "e", "r">>, <<"a", "s", " ", "w", "e", " ", "c", "a", "n", " ", "s", "e", "e">>>>), <<>>>>,
      <<PhraseRe(<<<<"i", "n", " ", "o", "r", "d", "e", "r", " ", "t", "o">>, <<"f", "o", "r", " ", "t", "h", "e", " ", "p", "u", "r", "p", "o", "s", "e", " ", "o", "f">>>>), <<"t", "o">>>>,
      <<PhraseRe(<<<<"d", "u", "e", " ", "t", "o", " ", "t", "h", "e", " ", "f", "a", "c", "t", " ", "t", "h", "a", "t">>>>), <<"b", "e", "c", "a", "u", "s", "e">>>>,
      <<PhraseRe(<<<<"a", "t", " ", "t", "h", "i", "s", " ", "p", "o", "i", "n", "t", " ", "i", "n", " ", "t", "i", "m", "e">>>>), <<"n", "o", "w">>>> >>

RECURSIVE ReplaceEachRange(_, _, _, _)
\* the passes lo..hi; the first half is computed before the second half begins
ReplaceEachRange(table, lo, hi, s) ==
    IF lo > hi THEN s
    ELSE IF lo = hi THEN ReplaceAllWith(table[lo][1], s, table[lo][2])
    ELSE LET mid == (lo + hi) \div 2
             half == ReplaceEachRange(table, lo, mid, s)
         IN  IF half = s THEN ReplaceEachRange(table, mid + 1, hi, s)
             ELSE ReplaceEachRange(table, mid + 1, hi, half)

\* the loop "for (pattern, replacement) in table": one replace_all per entry,
\* from the k-th on
ReplaceEach(table, k, s) ==
    LetThen(s, LAMBDA text : ReplaceEachRange(table, k, Len(table), text))

\* 620-635
remove_fluff_words(content) == ReplaceEach(fluff_patterns, 1, content)

\* (?i)\b(however|therefore|furthermore|moreover|additionally),?\s*
re_connectors ==
    Cat(<<WordB,
          Alt(<<LitCI(<<"h", "o", "w", "e", "v", "e", "r">>), LitCI(<<"t", "h", "e", "r", "e", "f", "o", "r", "e">>), LitCI(<<"f", "u", "r", "t", "h", "e", "r", "m", "o", "r", "e">>),
                LitCI(<<"m", "o", "r", "e", "o", "v", "e", "r">>), LitCI(<<"a", "d", "d", "i", "t", "i", "o", "n", "a", "l", "l", "y">>)>>),
          Opt(Lit(<<",">>)), Star(SpaceChar)>>)

\* 637-640
compress_sentences(content) == ReplaceAllWith(re_connectors, content, <<>>)

\* (?i)\bword\s+
WordThenSpaceCI(word) == Cat(<<WordB, LitCI(word), Plus(SpaceChar)>>)

\* the table of remove_redundant_phrases, 643-648
redundant_patterns ==
    <<<<WordThenSpaceCI(<<"v", "e", "r", "y">>), <<>>>>, <<WordThenSpaceCI(<<"r", "e", "a", "l", "l", "y">>), <<>>>>,
      <<WordThenSpaceCI(<<"q", "u", "i", "t", "e">>), <<>>>>, <<WordThenSpaceCI(<<"b", "a", "s", "i", "c", "a", "l", "l", "y">>), <<>>>> >>

\* 642-656
remove_redundant_phrases(content) == ReplaceEach(redundant_patterns, 1, content)

\* \b(a|an|the)\s+
re_articles ==
    Cat(<<WordB, Alt(<<Lit(<<"a">>), Lit(<<"a", "n">>), Lit(<<"t", "h", "e">>)>>), Plus(SpaceChar)>>)

\* \bword\b
WholeWord(word) == Cat(<<WordB, Lit(word), WordB>>)

\* the table of apply_extreme_ai_compression, 451-462
ai_replacements ==
    <<<<WholeWord(<<"f", "u", "n", "c", "t", "i", "o", "n">>), <<"F", "N">>>>, <<WholeWord(<<"p", "a", "r", "a", "m", "e", "t", "e", "r">>), <<"P", "A", "R", "A", "M">>>>,
      <<WholeWord(<<"d", "o", "c", "u", "m", "e", "n", "t", "a", "t", "i", "o", "n">>), <<"D", "O", "C">>>>, <<WholeWord(<<"e", "x", "a", "m", "p", "l", "e">>), <<"E", "X">>>>,
      <<WholeWord(<<"i", "n", "s", "t", "a", "l", "l", "a", "t", "i", "o", "n">>), <<"I", "N", "S", "T">>>>, <<WholeWord(<<"c", "o", "n", "f", "i", "g", "u", "r", "a", "t", "i", "o", "n">>), <<"C", "F", "G">>>>,
      <<WholeWord(<<"a", "u", "t", "h", "e", "n", "t", "i", "c", "a", "t", "i", "o", "n">>), <<"A", "U", "T", "H">>>>, <<WholeWord(<<"d", "a", "t", "a", "b", "a", "s", "e">>), <<"D", "B">>>>,
      <<WholeWord(<<"r", "e", "t", "u", "r", "n", "s">>), <<ARROW>>>>, <<WholeWord(<<"t", "h", "e", "r", "e", "f", "o", "r", "e">>), <<THEREFORE>>>> >>

\* 443-470
apply_extreme_ai_compression(content) ==
    ReplaceEach(ai_replacements, 1, ReplaceAllWith(re_articles, content, <<>>))

\* H(\d):(.+)
re_sections == Cat(<<Lit(<<"H">>), Cap(1, DigitChar), Lit(<<":">>), Cap(2, Plus(Dot))>>)

\* 494-498: the hook changes nothing
prioritize_code_content(content) == content

\* 472-492
apply_model_optimizations(content, model) ==
    CASE model = "copilot" -> prioritize_code_content(content)
      [] model = "gpt" ->
            ReplaceAll(re_sections, content,
                       LAMBDA m : <<"S", "E", "C", "T", "I", "O", "N", "_", "L">> \o m.caps[1] \o <<":">> \o m.caps[2])
      [] OTHER -> content

-----------------------------------------------------------------------------
(* The transforms of the VRD pipeline *)

\* a replacement string: pieces of text and references $n to capture groups
T(text) == [g |-> 0, s |-> text]

G(n) == [g |-> n, s |-> <<>>]

\* Replacer::replace_append: the replacement string with the groups filled in
Expand(template, caps) ==
    Flatten([k \in 1..Len(template) |->
                IF template[k].g = 0 THEN template[k].s ELSE caps[template[k].g]])

RECURSIVE ReplaceEachTRange(_, _, _, _)
\* the passes lo..hi; the first half is computed before the second half begins
ReplaceEachTRange(table, lo, hi, s) ==
    IF lo > hi THEN s
    ELSE IF lo = hi THEN ReplaceAll(table[lo][1], s, LAMBDA m : Expand(table[lo][2], m.caps))
    ELSE LET mid == (lo + hi) \div 2
             half == ReplaceEachTRange(table, lo, mid, s)
         IN  IF half = s THEN ReplaceEachTRange(table, mid + 1, hi, s)
             ELSE ReplaceEachTRange(table, mid + 1, hi, half)

\* "for (pattern, replacement) in table" where the replacements refer to groups
ReplaceEachT(table, k, s) ==
    LetThen(s, LAMBDA text : ReplaceEachTRange(table, k, Len(table), text))

\* (\w+)
W(n) == Cap(n, Plus(WordChar))

\* \s+
Sp == Plus(SpaceChar)

\* (?i)(\w+)\s+verb\s+(\w+)
Causal(verb) == Cat(<<W(1), Sp, LitCI(verb), Sp, W(2)>>)

\* (?i)word\s+(\w+),?\s+(\w+)
Temporal(word) == Cat(<<LitCI(word), Sp, W(1), Opt(Lit(<<",">>)), Sp, W(2)>>)

\* the table of apply_enhanced_arrow_notation, 1086-1109
enhanced_arrow_patterns ==
    <<<<LitCI(<<"u", "s", "e", "r", " ", "s", "u", "b", "m", "i", "t", "s", " ", "f", "o", "r", "m">>), <<T(<<"u", "s", "e", "r", ARROW, "f", "o", "r", "m">>)>>>>,
      <<LitCI(<<"s", "e", "r", "v", "e", "r", " ", "v", "a", "l", "i", "d", "a", "t", "e", "s", " ", "d", "a", "t", "a">>), <<T(<<"s", "e", "r", "v", "e", "r", ARROW, "v", "a", "l", "i", "d", "a", "t", "e">>)>>>>,
      <<LitCI(<<"d", "a", "t", "a", "b", "a", "s", "e", " ", "s", "t", "o", "r", "e", "s", " ", "r", "e", "s", "u", "l", "t">>), <<T(<<"D", "B", ARROW, "s", "t", "o", "r", "e">>)>>>>,
      <<LitCI(<<"s", "y", "s", "t", "e", "m", " ", "s", "e", "n", "d", "s", " ", "r", "e", "s", "p", "o", "n", "s", "e">>), <<T(<<"s", "y", "s", "t", "e", "m", ARROW, "r", "e", "s", "p", "o", "n", "s", "e">>)>>>>,
      <<Causal(<<"t", "r", "i", "g", "g", "e", "r", "s">>), <<G(1), T(<<ARROW>>), G(2)>>>>,
      <<Causal(<<"c", "a", "u", "s", "e", "s">>), <<G(1), T(<<ARROW>>), G(2)>>>>,
      <<Causal(<<"l", "e", "a", "d", "s", " ", "t", "o">>), <<G(1), T(<<ARROW>>), G(2)>>>>,
      <<Causal(<<"r", "e", "s", "u", "l", "t", "s", " ", "i", "n">>), <<G(1), T(<<ARROW>>), G(2)>>>>,
      <<Temporal(<<"a", "f", "t", "e", "r">>), <<G(1), T(<<ARROW>>), G(2)>>>>,
      <<Temporal(<<"o", "n", "c", "e">>), <<G(1), T(<<ARROW>>), G(2)>>>>,
      <<Temporal(<<"w", "h", "e", "n">>), <<G(1), T(<<ARROW>>), G(2)>>>>,
      <<Cat(<<LitCI(<<"t", "h", "e", "n">>), Sp, W(1)>>), <<T(<<ARROW>>), G(1)>>>>,
      <<Cat(<<W(1), Sp, LitCI(<<"p", "a", "s", "s", "e", "s">>), Sp, W(2), Sp, LitCI(<<"t", "o">>), Sp, W(3)>>),
        <<G(1), T(<<ARROW>>), G(2), T(<<ARROW>>), G(3)>>>>,
      <<Causal(<<"s", "e", "n", "d", "s">>), <<G(1), T(<<ARROW>>), G(2)>>>>,
      <<Causal(<<"r", "e", "c", "e", "i", "v", "e", "s">>), <<G(2), T(<<ARROW>>), G(1)>>>> >>

\* 1085-1118
apply_enhanced_arrow_notation(content) == ReplaceEachT(enhanced_arrow_patterns, 1, content)

\* the table of apply_arrow_notation, 925-935
basic_patterns ==
    <<<<Lit(<<" ", "t", "h", "e", "n", " ">>), <<ARROW>>>>, <<Lit(<<" ", "a", "n", "d", " ", "t", "h", "e", "n", " ">>), <<ARROW>>>>,
      <<Lit(<<" ", "w", "h", "i", "c", "h", " ">>), <<ARROW>>>>, <<Lit(<<" ", "t", "h", "a", "t", " ">>), <<ARROW>>>>,
      <<Lit(<<" ", "l", "e", "a", "d", "s", " ", "t", "o", " ">>), <<ARROW>>>>, <<Lit(<<" ", "r", "e", "s", "u", "l", "t", "s", " ", "i", "n", " ">>), <<ARROW>>>>,
      <<Lit(<<" ", "c", "a", "u", "s", "e", "s", " ">>), <<ARROW>>>>, <<Lit(<<" ", "t", "r", "i", "g", "g", "e", "r", "s", " ">>), <<ARROW>>>>,
      <<Lit(<<" ", "f", "o", "l", "l", "o", "w", "e", "d", " ", "b", "y", " ">>), <<ARROW>>>> >>

\* 922-943
apply_arrow_notation(content) ==
    ReplaceEach(basic_patterns, 1, apply_enhanced_arrow_notation(content))

\* the table of apply_vrd_abbreviations, 946-964, each word as \bword\b
abbreviations ==
    <<<<WholeWord(<<"a", "p", "p", "l", "i", "c", "a", "t", "i", "o", "n">>), <<"a", "p", "p">>>>, <<WholeWord(<<"c", "o", "n", "f", "i", "g", "u", "r", "a", "t", "i", "o", "n">>), <<"C", "F", "G">>>>,
      <<WholeWord(<<"a", "u", "t", "h", "e", "n", "t", "i", "c", "a", "t", "i", "o", "n">>), <<"A", "U", "T", "H">>>>, <<WholeWord(<<"a", "u", "t", "h", "o", "r", "i", "z", "a", "t", "i", "o", "n">>), <<"A", "U", "T", "H", "Z">>>>,
      <<WholeWord(<<"d", "a", "t", "a", "b", "a", "s", "e">>), <<"D", "B">>>>, <<WholeWord(<<"f", "u", "n", "c", "t", "i", "o", "n">>), <<"F", "N">>>>,
      <<WholeWord(<<"p", "a", "r", "a", "m", "e", "t", "e", "r">>), <<"P", "A", "R", "A", "M">>>>, <<WholeWord(<<"v", "a", "r", "i", "a", "b", "l", "e">>), <<"v", "a", "r">>>>,
      <<WholeWord(<<"i", "n", "t", "e", "r", "f", "a", "c", "e">>), <<"i", "n", "t", "e", "r", "f", "a", "c", "e">>>>, <<WholeWord(<<"i", "m", "p", "l", "e", "m", "e", "n", "t", "a", "t", "i", "o", "n">>), <<"I", "M", "P", "L">>>>,
      <<WholeWord(<<"d", "o", "c", "u", "m", "e", "n", "t", "a", "t", "i", "o", "n">>), <<"D", "O", "C">>>>, <<WholeWord(<<"e", "x", "a", "m", "p", "l", "e">>), <<"E", "X">>>>,
      <<WholeWord(<<"i", "n", "s", "t", "a", "l", "l", "a", "t", "i", "o", "n">>), <<"I", "N", "S", "T">>>>, <<WholeWord(<<"d", "e", "v", "e", "l", "o", "p", "m", "e", "n", "t">>), <<"d", "e", "v">>>>,
      <<WholeWord(<<"p", "r", "o", "d", "u", "c", "t", "i", "o", "n">>), <<"p", "r", "o", "d">>>>, <<WholeWord(<<"e", "n", "v", "i", "r", "o", "n", "m", "e", "n", "t">>), <<"e", "n", "v">>>>,
      <<WholeWord(<<"r", "e", "p", "o", "s", "i", "t", "o", "r", "y">>), <<"r", "e", "p", "o">>>> >>

\* 945-973
apply_vrd_abbreviations(content) == ReplaceEach(abbreviations, 1, content)

\* ^[*-]\s+(.+)$
re_bullets == Cat(<<Bol, OneOf({"*", "-"}), Sp, Cap(1, Plus(Dot)), Eol>>)

\* ^\d+\.\s+(.+)$
re_numbered == Cat(<<Bol, Plus(DigitChar), Lit(<<".">>), Sp, Cap(1, Plus(Dot)), Eol>>)

\* 813-825
compress_vrd_lists(content) ==
    LetThen(ReplaceAll(re_bullets, content, LAMBDA m : <<BULLET>> \o m.caps[1]), LAMBDA r1 :
    ReplaceAll(re_numbered, r1, LAMBDA m : <<NUMERO>> \o m.caps[1]))

\* the table of compress_vrd_sentences, 831-844, each phrase under (?i)
vrd_sentence_replacements ==
    <<<<LitCI(<<"i", "n", " ", "o", "r", "d", "e", "r", " ", "t", "o">>), <<"t", "o">>>>, <<LitCI(<<"d", "u", "e", " ", "t", "o", " ", "t", "h", "e", " ", "f", "a", "c", "t", " ", "t", "h", "a", "t">>), <<"b", "e", "c", "a", "u", "s", "e">>>>,
      <<LitCI(<<"i", "t", " ", "i", "s", " ", "i", "m", "p", "o", "r", "t", "a", "n", "t", " ", "t", "o", " ", "n", "o", "t", "e", " ", "t", "h", "a", "t">>), <<"N", "O", "T", "E", ":">>>>,
      <<LitCI(<<"p", "l", "e", "a", "s", "e", " ", "n", "o", "t", "e", " ", "t", "h", "a", "t">>), <<"N", "O", "T", "E", ":">>>>, <<LitCI(<<"a", "s", " ", "m", "e", "n", "t", "i", "o", "n", "e", "d", " ", "a", "b", "o", "v", "e">>), <<UPARROW>>>>,
      <<LitCI(<<"a", "s", " ", "s", "h", "o", "w", "n", " ", "b", "e", "l", "o", "w">>), <<DOWNARROW>>>>, <<LitCI(<<"f", "o", "r", " ", "e", "x", "a", "m", "p", "l", "e">>), <<"E", "X", ":">>>>,
      <<LitCI(<<"s", "u", "c", "h", " ", "a", "s">>), <<"e", ".", "g", ".">>>>, <<LitCI(<<"a", "n", "d", " ", "s", "o", " ", "o", "n">>), <<"e", "t", "c">>>>,
      <<LitCI(<<"a", "t", " ", "t", "h", "i", "s", " ", "p", "o", "i", "n", "t", " ", "i", "n", " ", "t", "i", "m", "e">>), <<"n", "o", "w">>>>, <<LitCI(<<"i", "n", " ", "t", "h", "e", " ", "e", "v", "e", "n", "t", " ", "t", "h", "a", "t">>), <<"i", "f">>>>,
      <<LitCI(<<"o", "n", " ", "t", "h", "e", " ", "o", "t", "h", "e", "r", " ", "h", "a", "n", "d">>), <<"v", "s">>>> >>

\* 827-852
compress_vrd_sentences(content) == ReplaceEach(vrd_sentence_replacements, 1, content)

\* \bfiller\s+
WordThenSpace(word) == Cat(<<WordB, Lit(word), Plus(SpaceChar)>>)

\* the fillers of apply_extreme_vrd_compression, 983
fillers ==
    <<<<WordThenSpace(<<"r", "e", "a", "l", "l", "y">>), <<>>>>, <<WordThenSpace(<<"v", "e", "r", "y">>), <<>>>>,
      <<WordThenSpace(<<"q", "u", "i", "t", "e">>), <<>>>>, <<WordThenSpace(<<"j", "u", "s", "t">>), <<>>>>,
      <<WordThenSpace(<<"s", "i", "m", "p", "l", "y">>), <<>>>>, <<WordThenSpace(<<"b", "a", "s", "i", "c", "a", "l", "l", "y">>), <<>>>>,
      <<WordThenSpace(<<"e", "s", "s", "e", "n", "t", "i", "a", "l", "l", "y">>), <<>>>>, <<WordThenSpace(<<"a", "c", "t", "u", "a", "l", "l", "y">>), <<>>>>,
      <<WordThenSpace(<<"l", "i", "t", "e", "r", "a", "l", "l", "y">>), <<>>>> >>

\* (?i)\bfull\b
WholeCI(full) == Cat(<<WordB, LitCI(full), WordB>>)

\* the table of apply_extreme_vrd_compression, 994-1045
aggressive_replacements ==
    <<<<WholeCI(<<"i", "n", " ", "o", "r", "d", "e", "r", " ", "t", "o">>), <<"t", "o">>>>, <<WholeCI(<<"d", "u", "e", " ", "t", "o", " ", "t", "h", "e", " ", "f", "a", "c", "t", " ", "t", "h", "a", "t">>), <<"b", "e", "c", "a", "u", "s", "e">>>>,
      <<WholeCI(<<"i", "t", " ", "i", "s", " ", "i", "m", "p", "o", "r", "t", "a", "n", "t", " ", "t", "o", " ", "n", "o", "t", "e", " ", "t", "h", "a", "t">>), <<"N", "O", "T", "E", ":">>>>,
      <<WholeCI(<<"p", "l", "e", "a", "s", "e", " ", "n", "o", "t", "e", " ", "t", "h", "a", "t">>), <<"N", "O", "T", "E", ":">>>>, <<WholeCI(<<"a", "s", " ", "m", "e", "n", "t", "i", "o", "n", "e", "d", " ", "a", "b", "o", "v", "e">>), <<UPARROW>>>>,
      <<WholeCI(<<"a", "s", " ", "s", "h", "o", "w", "n", " ", "b", "e", "l", "o", "w">>), <<DOWNARROW>>>>, <<WholeCI(<<"f", "o", "r", " ", "e", "x", "a", "m", "p", "l", "e">>), <<"E", "X", ":">>>>,
      <<WholeCI(<<"s", "u", "c", "h", " ", "a", "s">>), <<"e", ".", "g", ".">>>>, <<WholeCI(<<"a", "n", "d", " ", "s", "o", " ", "o", "n">>), <<"e", "t", "c">>>>,
      <<WholeCI(<<"a", "t", " ", "t", "h", "i", "s", " ", "p", "o", "i", "n", "t", " ", "i", "n", " ", "t", "i", "m", "e">>), <<"n", "o", "w">>>>, <<WholeCI(<<"i", "n", " ", "t", "h", "e", " ", "e", "v", "e", "n", "t", " ", "t", "h", "a", "t">>), <<"i", "f">>>>,
      <<WholeCI(<<"o", "n", " ", "t", "h", "e", " ", "o", "t", "h", "e", "r", " ", "h", "a", "n", "d">>), <<"v", "s">>>>, <<WholeCI(<<"G", "e", "n", "e", "r", "a", "t", "e", "d", ":">>), <<"G", "e", "n", ":">>>>,
      <<WholeCI(<<"C", "r", "e", "a", "t", "e", "d", ":">>), <<"M", "a", "d", "e", ":">>>>, <<WholeCI(<<"I", "m", "p", "l", "e", "m", "e", "n", "t", "e", "d", ":">>), <<"B", "u", "i", "l", "t", ":">>>>,
      <<WholeCI(<<"A", "c", "h", "i", "e", "v", "e", "m", "e", "n", "t", ":">>), <<"W", "i", "n", ":">>>>, <<WholeCI(<<"A", "c", "c", "o", "m", "p", "l", "i", "s", "h", "e", "d", ":">>), <<"D", "o", "n", "e", ":">>>>,
      <<WholeCI(<<"F", "e", "a", "t", "u", "r", "e", "s">>), <<"F", ":">>>>, <<WholeCI(<<"P", "r", "i", "o", "r", "i", "t", "y">>), <<"P">>>>,
      <<WholeCI(<<"C", "u", "r", "r", "e", "n", "t">>), <<"N", "o", "w">>>>, <<WholeCI(<<"S", "t", "r", "a", "t", "e", "g", "i", "c">>), <<"S", "t", "r", "a", "t", "e", "g", "y">>>>,
      <<WholeCI(<<"T", "e", "c", "h", "n", "i", "c", "a", "l">>), <<"T", "e", "c", "h">>>>, <<WholeCI(<<"D", "e", "v", "e", "l", "o", "p", "m", "e", "n", "t">>), <<"D", "e", "v">>>>,
      <<WholeCI(<<"I", "m", "p", "l", "e", "m", "e", "n", "t", "a", "t", "i", "o", "n">>), <<"I", "m", "p", "l">>>>, <<WholeCI(<<"O", "p", "t", "i", "m", "i", "z", "a", "t", "i", "o", "n">>), <<"O", "p", "t">>>>,
      <<WholeCI(<<"S", "p", "e", "c", "i", "f", "i", "c", "a", "t", "i", "o", "n">>), <<"S", "p", "e", "c">>>>, <<WholeCI(<<"D", "o", "c", "u", "m", "e", "n", "t", "a", "t", "i", "o", "n">>), <<"D", "o", "c">>>>,
      <<WholeCI(<<"R", "e", "p", "o", "s", "i", "t", "o", "r", "y">>), <<"R", "e", "p", "o">>>>, <<WholeCI(<<"A", "p", "p", "l", "i", "c", "a", "t", "i", "o", "n">>), <<"A", "p", "p">>>>,
      <<WholeCI(<<"C", "o", "n", "f", "i", "g", "u", "r", "a", "t", "i", "o", "n">>), <<"C", "o", "n", "f", "i", "g">>>>, <<WholeCI(<<"E", "n", "v", "i", "r", "o", "n", "m", "e", "n", "t">>), <<"E", "n", "v">>>>,
      <<WholeCI(<<"P", "e", "r", "f", "o", "r", "m", "a", "n", "c", "e">>), <<"P", "e", "r", "f">>>>, <<WholeCI(<<"Q", "u", "a", "l", "i", "t", "y", " ", "A", "s", "s", "u", "r", "a", "n", "c", "e">>), <<"Q", "A">>>>,
      <<WholeCI(<<"U", "s", "e", "r", " ", "E", "x", "p", "e", "r", "i", "e", "n", "c", "e">>), <<"U", "X">>>>, <<WholeCI(<<"B", "r", "e", "a", "k", "t", "h", "r", "o", "u", "g", "h">>), <<"W", "i", "n">>>>,
      <<WholeCI(<<"r", "e", "p", "r", "e", "s", "e", "n", "t", "s">>), <<"=">>>>, <<WholeCI(<<"d", "e", "m", "o", "n", "s", "t", "r", "a", "t", "e", "s">>), <<"s", "h", "o", "w", "s">>>>,
      <<WholeCI(<<"s", "u", "c", "c", "e", "s", "s", "f", "u", "l", "l", "y">>), <<CHECKMARK>>>>, <<WholeCI(<<"e", "f", "f", "i", "c", "i", "e", "n", "t", "l", "y">>), <<"f", "a", "s", "t">>>>,
      <<WholeCI(<<"c", "o", "m", "p", "r", "e", "h", "e", "n", "s", "i", "v", "e">>), <<"f", "u", "l", "l">>>>, <<WholeCI(<<"i", "n", "n", "o", "v", "a", "t", "i", "v", "e">>), <<"n", "e", "w">>>>,
      <<WholeCI(<<"r", "e", "v", "o", "l", "u", "t", "i", "o", "n", "a", "r", "y">>), <<"n", "e", "w">>>>, <<WholeCI(<<"s", "i", "g", "n", "i", "f", "i", "c", "a", "n", "t">>), <<"b", "i", "g">>>>,
      <<WholeCI(<<"i", "m", "p", "o", "r", "t", "a", "n", "t">>), <<"k", "e", "y">>>>, <<WholeCI(<<"p", "o", "t", "e", "n", "t", "i", "a", "l">>), <<"c", "o", "u", "l", "d">>>>,
      <<WholeCI(<<"c", "a", "p", "a", "b", "i", "l", "i", "t", "y">>), <<"c", "a", "n">>>>, <<WholeCI(<<"f", "u", "n", "c", "t", "i", "o", "n", "a", "l", "i", "t", "y">>), <<"w", "o", "r", "k">>>>,
      <<WholeCI(<<"o", "p", "p", "o", "r", "t", "u", "n", "i", "t", "y">>), <<"c", "h", "a", "n", "c", "e">>>>, <<WholeCI(<<"i", "m", "p", "r", "o", "v", "e", "m", "e", "n", "t">>), <<"f", "i", "x">>>>,
      <<WholeCI(<<"e", "n", "h", "a", "n", "c", "e", "m", "e", "n", "t">>), <<"b", "o", "o", "s", "t">>>> >>

\* 975-1053
apply_extreme_vrd_compression(content) ==
    LetThen(ReplaceAllWith(re_articles, content, <<>>), LAMBDA r1 :
    LetThen(ReplaceEach(fillers, 1, r1), LAMBDA r2 :
    LetThen(StrReplace(r2, <<"*", "*">>, <<>>), LAMBDA r3 :
    LetThen(StrReplace(r3, <<"*">>, <<>>), LAMBDA r4 :
    ReplaceEach(aggressive_replacements, 1, r4)))))

\* (?i)\bphrase
StartsWordCI(phrase) == Cat(<<WordB, LitCI(phrase)>>)

\* the table of apply_mathematical_notation, 1058-1075, each under (?i)
math_replacements ==
    <<<<WholeCI(<<"r", "e", "t", "u", "r", "n">>), <<ARROW>>>>, <<WholeCI(<<"y", "i", "e", "l", "d">>), <<LONGARROW>>>>,
      <<WholeCI(<<"t", "h", "e", "r", "e", "f", "o", "r", "e">>), <<THEREFORE>>>>, <<WholeCI(<<"b", "e", "c", "a", "u", "s", "e">>), <<BECAUSE>>>>,
      <<Cat(<<WordB, LitCI(<<"e", "q", "u", "a", "l">>), Opt(LitCI(<<"s">>)), WordB>>), <<"=">>>>,
      <<StartsWordCI(<<"n", "o", "t", " ", "e", "q", "u", "a", "l">>), <<NOTEQUAL>>>>,
      <<StartsWordCI(<<"g", "r", "e", "a", "t", "e", "r", " ", "t", "h", "a", "n", " ", "o", "r", " ", "e", "q", "u", "a", "l">>), <<GEQ>>>>,
      <<StartsWordCI(<<"l", "e", "s", "s", " ", "t", "h", "a", "n", " ", "o", "r", " ", "e", "q", "u", "a", "l">>), <<LEQ>>>>,
      <<StartsWordCI(<<"a", "p", "p", "r", "o", "x", "i", "m", "a", "t", "e", "l", "y">>), <<APPROX>>>>,
      <<StartsWordCI(<<"i", "n", "f", "i", "n", "i", "t", "y">>), <<INFINITY>>>>, <<StartsWordCI(<<"s", "u", "m", " ", "o", "f">>), <<SIGMA>>>>,
      <<StartsWordCI(<<"f", "o", "r", " ", "a", "l", "l">>), <<FORALL>>>>, <<StartsWordCI(<<"t", "h", "e", "r", "e", " ", "e", "x", "i", "s", "t", "s">>), <<EXISTS>>>>,
      <<StartsWordCI(<<"m", "a", "p", "p", "i", "n", "g", " ", "t", "o">>), <<MAPSTO>>>>, <<StartsWordCI(<<"i", "m", "p", "l", "i", "e", "s">>), <<IMPLIESARROW>>>>,
      <<StartsWordCI(<<"i", "f", " ", "a", "n", "d", " ", "o", "n", "l", "y", " ", "i", "f">>), <<IFFARROW>>>> >>

\* 1055-1083
apply_mathematical_notation(content) == ReplaceEach(math_replacements, 1, content)

\* ```[\s\S]*?```
re_fenced == Cat(<<Lit(Fence), LazyStar(AnyChar), Lit(Fence)>>)

\* 782-783
remove_code_blocks(content) == ReplaceAllWith(re_fenced, content, <<>>)

\* str::starts_with(char)
StartsWith(s, c) == s # <<>> /\ s[1] = c

\* 786-790: the lines that do not begin, after leading blanks, with '#'
remove_header_lines(content) ==
    Join(SelectSeq(Lines(content), LAMBDA line : ~StartsWith(TrimStart(line), "#")), <<NL>>)

RECURSIVE TrimStartMatches(_, _)
\* str::trim_start_matches(char)
TrimStartMatches(s, c) == IF StartsWith(s, c) THEN TrimStartMatches(Tail(s), c) ELSE s

\* 854-876
extract_headers_for_vrd(content, no_emojis) ==
    LET header_lines == SelectSeq([k \in 1..Len(Lines(content)) |-> Trim(Lines(content)[k])],
                                  LAMBDA trimmed : StartsWith(trimmed, "#"))
    IN  [k \in 1..Len(header_lines) |->
            LET header_text == Trim(TrimStartMatches(header_lines[k], "#"))
            IN  IF no_emojis THEN remove_emojis(header_text) ELSE header_text]

\* the chain of str::replace of compress_code_for_vrd, 902-914
code_replacements ==
    <<<<<<" ", "=", ">", " ">>, <<ARROW>>>>, <<<<" ", "-", ">", " ">>, <<ARROW>>>>, <<<<"r", "e", "t", "u", "r", "n", " ">>, <<ARROW>>>>,
      <<<<"a", "s", "y", "n", "c", " ", "f", "u", "n", "c", "t", "i", "o", "n", " ">>, <<"a", "s", "y", "n", "c", " ", "F", "N", " ">>>>, <<<<"f", "u", "n", "c", "t", "i", "o", "n", " ">>, <<"F", "N", " ">>>>, <<<<"c", "o", "n", "s", "t", " ">>, <<>>>>,
      <<<<"l", "e", "t", " ">>, <<>>>>, <<<<"v", "a", "r", " ">>, <<>>>>, <<<<"(", " ">>, <<"(">>>>, <<<<" ", ")">>, <<")">>>>,
      <<<<"{", " ">>, <<"{">>>>, <<<<" ", "}">>, <<"}">>>> >>

RECURSIVE StrReplaceEachRange(_, _, _, _)
\* the passes lo..hi; the first half is computed before the second half begins
StrReplaceEachRange(table, lo, hi, s) ==
    IF lo > hi THEN s
    ELSE IF lo = hi THEN StrReplace(s, table[lo][1], table[lo][2])
    ELSE LET mid == (lo + hi) \div 2
             half == StrReplaceEachRange(table, lo, mid, s)
         IN  IF half = s THEN StrReplaceEachRange(table, mid + 1, hi, s)
             ELSE StrReplaceEachRange(table, mid + 1, hi, half)

\* a chain of str::replace, one per entry
StrReplaceEach(table, k, s) ==
    LetThen(s, LAMBDA text : StrReplaceEachRange(table, k, Len(table), text))

\* 894-920
compress_code_for_vrd(code, lang) ==
    LET kept == SelectSeq(Lines(code), LAMBDA line : Trim(line) # <<>>)
    IN  Join([k \in 1..Len(kept) |-> StrReplaceEach(code_replacements, 1, Trim(kept[k]))],
             <<ARROW>>)

\* 878-892
extract_and_compress_code_blocks(content) ==
    LET ms == AllMatches(re_code_block, content)
    IN  [k \in 1..Len(ms) |-> compress_code_for_vrd(ms[k].caps[2], ms[k].caps[1])]

-----------------------------------------------------------------------------
(* extract_enhanced_tags_from_content, main.rs 1214-1262 *)

\* 1219-1224
frameworks ==
    <<<<<<"r", "e", "a", "c", "t">>, <<"r", "e", "a", "c", "t">>>>, <<<<"v", "u", "e">>, <<"v", "u", "e">>>>, <<<<"a", "n", "g", "u", "l", "a", "r">>, <<"a", "n", "g", "u", "l", "a", "r">>>>,
      <<<<"e", "x", "p", "r", "e", "s", "s">>, <<"e", "x", "p", "r", "e", "s", "s">>>>, <<<<"f", "a", "s", "t", "a", "p", "i">>, <<"f", "a", "s", "t", "a", "p", "i">>>>, <<<<"d", "j", "a", "n", "g", "o">>, <<"d", "j", "a", "n", "g", "o">>>>,
      <<<<"f", "l", "a", "s", "k">>, <<"f", "l", "a", "s", "k">>>>, <<<<"s", "p", "r", "i", "n", "g">>, <<"s", "p", "r", "i", "n", "g">>>>, <<<<"r", "a", "i", "l", "s">>, <<"r", "a", "i", "l", "s">>>>,
      <<<<"n", "e", "x", "t", "j", "s">>, <<"n", "e", "x", "t", "j", "s">>>> >>

\* 1227-1231
languages ==
    <<<<<<"j", "a", "v", "a", "s", "c", "r", "i", "p", "t">>, <<"j", "s">>>>, <<<<"t", "y", "p", "e", "s", "c", "r", "i", "p", "t">>, <<"t", "s">>>>, <<<<"p", "y", "t", "h", "o", "n">>, <<"p", "y", "t", "h", "o", "n">>>>,
      <<<<"r", "u", "s", "t">>, <<"r", "u", "s", "t">>>>, <<<<"g", "o">>, <<"g", "o">>>>, <<<<"j", "a", "v", "a">>, <<"j", "a", "v", "a">>>>, <<<<"c", "+", "+">>, <<"c", "p", "p">>>>,
      <<<<"c", "#">>, <<"c", "s", "h", "a", "r", "p">>>>, <<<<"p", "h", "p">>, <<"p", "h", "p">>>>, <<<<"r", "u", "b", "y">>, <<"r", "u", "b", "y">>>> >>

\* 1234-1239
technologies ==
    <<<<<<"d", "o", "c", "k", "e", "r">>, <<"d", "o", "c", "k", "e", "r">>>>, <<<<"k", "u", "b", "e", "r", "n", "e", "t", "e", "s">>, <<"k", "8", "s">>>>, <<<<"a", "w", "s">>, <<"a", "w", "s">>>>,
      <<<<"a", "z", "u", "r", "e">>, <<"a", "z", "u", "r", "e">>>>, <<<<"g", "c", "p">>, <<"g", "c", "p">>>>, <<<<"r", "e", "d", "i", "s">>, <<"r", "e", "d", "i", "s">>>>,
      <<<<"p", "o", "s", "t", "g", "r", "e", "s", "q", "l">>, <<"p", "o", "s", "t", "g", "r", "e", "s">>>>, <<<<"m", "y", "s", "q", "l">>, <<"m", "y", "s", "q", "l">>>>, <<<<"m", "o", "n", "g", "o", "d", "b">>, <<"m", "o", "n", "g", "o">>>>,
      <<<<"e", "l", "a", "s", "t", "i", "c", "s", "e", "a", "r", "c", "h">>, <<"e", "l", "a", "s", "t", "i", "c">>>> >>

\* 1242-1247
concepts ==
    <<<<<<"a", "u", "t", "h", "e", "n", "t", "i", "c", "a", "t", "i", "o", "n">>, <<"a", "u", "t", "h">>>>, <<<<"a", "u", "t", "h", "o", "r", "i", "z", "a", "t", "i", "o", "n">>, <<"a", "u", "t", "h", "z">>>>,
      <<<<"s", "e", "c", "u", "r", "i", "t", "y">>, <<"s", "e", "c", "u", "r", "i", "t", "y">>>>, <<<<"t", "e", "s", "t", "i", "n", "g">>, <<"t", "e", "s", "t", "i", "n", "g">>>>, <<<<"d", "e", "p", "l", "o", "y", "m", "e", "n", "t">>, <<"d", "e", "p", "l", "o", "y">>>>,
      <<<<"m", "o", "n", "i", "t", "o", "r", "i", "n", "g">>, <<"m", "o", "n", "i", "t", "o", "r", "i", "n", "g">>>>, <<<<"l", "o", "g", "g", "i", "n", "g">>, <<"l", "o", "g", "g", "i", "n", "g">>>>, <<<<"c", "a", "c", "h", "i", "n", "g">>, <<"c", "a", "c", "h", "e">>>>,
      <<<<"s", "c", "a", "l", "i", "n", "g">>, <<"s", "c", "a", "l", "e">>>>, <<<<"p", "e", "r", "f", "o", "r", "m", "a", "n", "c", "e">>, <<"p", "e", "r", "f">>>> >>

\* 1249
all_patterns == frameworks \o languages \o technologies \o concepts

\* the indexes of the lexicon entries whose pattern occurs in the lower-cased content
MatchedEntries(content) ==
    LET content_lower == ToLower(content)
    IN  {k \in 1..Len(all_patterns) : Contains(content_lower, all_patterns[k][1])}

\* the HashSet after the loop at 1251-1255
CollectTags(content) == {all_patterns[k][2] : k \in MatchedEntries(content)}

\* the ASCII characters of the tags in the order of their bytes
ByteOrder ==
    <<"0", "1", "2", "3", "4", "5", "6", "7", "8", "9">> \o UpperLetters \o <<"_">> \o LowerLetters

ByteOf(c) == CHOOSE k \in 1..Len(ByteOrder) : ByteOrder[k] = c

RECURSIVE StrLess(_, _)
\* Ord for String: a < b, comparing byte by byte
StrLess(a, b) ==
    IF b = <<>> THEN FALSE
    ELSE IF a = <<>> THEN TRUE
    ELSE IF ByteOf(Head(a)) # ByteOf(Head(b)) THEN ByteOf(Head(a)) < ByteOf(Head(b))
    ELSE StrLess(Tail(a), Tail(b))

RECURSIVE InsertSorted(_, _)
\* x placed in the sorted vector v after the elements that are not greater
InsertSorted(x, v) ==
    IF v = <<>> THEN <<x>>
    ELSE IF StrLess(x, Head(v)) THEN <<x>> \o v
    ELSE <<Head(v)>> \o InsertSorted(x, Tail(v))

RECURSIVE SortFrom(_, _)
SortFrom(v, sorted) ==
    IF v = <<>> THEN sorted ELSE SortFrom(Tail(v), InsertSorted(Head(v), sorted))

\* the vector is left in the order the hash set yielded it
SortVec_Unsorted(v) == v

\* 1259: Vec::sort (stable)
SortVec(v) == SortFrom(v, <<>>)

\* the cap of 1260
MaxTags == 5

\* 1260: Vec::truncate
Truncate(v, n) == IF Len(v) > n THEN SubSeq(v, 1, n) ELSE v

RECURSIVE IterationOrders(_)
\* the orders in which a HashSet may yield its elements
IterationOrders(S) ==
    IF S = {} THEN {<<>>}
    ELSE UNION {{<<x>> \o p : p \in IterationOrders(S \ {x})} : x \in S}

RECURSIVE SomeOrder(_)
\* one of them
SomeOrder(S) ==
    IF S = {} THEN <<>>
    ELSE LET x == CHOOSE y \in S : TRUE IN <<x>> \o SomeOrder(S \ {x})

\* 1214-1262 as a function; the order of into_iter() is taken to be SomeOrder
extract_enhanced_tags_from_content(content) ==
    Truncate(SortVec(SomeOrder(CollectTags(content))), MaxTags)

\* 1251-1255
TagsScan ==
    /\ pc = "tags_scan"
    /\ tags' = CollectTags(raw_content)
    /\ pc' = "tags_collect"
    /\ UNCHANGED <<mainVars, dedupVars, pipeVars, tag_vec, outVars>>

\* 1258: tags.into_iter().collect(), in whatever order the hash set iterates
TagsCollect ==
    /\ pc = "tags_collect"
    /\ \E v \in IterationOrders(tags) : tag_vec' = v
    /\ pc' = "tags_sort"
    /\ UNCHANGED <<mainVars, dedupVars, pipeVars, tags, outVars>>

\* 1259
TagsSort ==
    /\ pc = "tags_sort"
    /\ tag_vec' = SortVec(tag_vec)
    /\ pc' = "tags_truncate"
    /\ UNCHANGED <<mainVars, dedupVars, pipeVars, tags, outVars>>

\* 1260-1261
TagsTruncate ==
    /\ pc = "tags_truncate"
    /\ tag_vec' = Truncate(tag_vec, MaxTags)
    /\ pc' = "tags_done"
    /\ UNCHANGED <<mainVars, dedupVars, pipeVars, tags, outVars>>

-----------------------------------------------------------------------------
(* compress_content, main.rs 404-441 *)

Levels == {"low", "medium", "high", "extreme"}

Models == {"claude", "gpt", "copilot"}

\* 420: the arm "medium" | "high" | "extreme" is taken
MediumArm(level) == level \in {"medium", "high", "extreme"}

\* the transforms of the arm are run at level high only
HighArm_OnlyHigh(level) == level = "high"

\* 428
HighArm(level) == level = "high" \/ level = "extreme"

\* 433
ExtremeArm(level, ai_mode) == level = "extreme" \/ ai_mode

\* the transforms compress_content runs, in order, by the conditions of 408-438
MdStageSeq(level, ai_mode, no_emojis) ==
    (IF no_emojis THEN <<"remove_emojis">> ELSE <<>>)
    \o <<"remove_excessive_whitespace", "remove_empty_lines",
         "compress_headers_aggressively", "compress_formatting">>
    \o (IF MediumArm(level)
        THEN <<"compress_code_blocks", "compress_lists_aggressively", "remove_fluff_words">>
        ELSE <<>>)
    \o (IF HighArm(level) THEN <<"compress_sentences", "remove_redundant_phrases">> ELSE <<>>)
    \o (IF ExtremeArm(level, ai_mode) THEN <<"apply_extreme_ai_compression">> ELSE <<>>)
    \o <<"apply_model_optimizations">>

\* their names
MdStages(level, ai_mode, no_emojis) == Range(MdStageSeq(level, ai_mode, no_emojis))

\* the call of the transform of that name
Transform(name, text, model) ==
    CASE name = "remove_emojis" -> remove_emojis(text)
      [] name = "remove_excessive_whitespace" -> remove_excessive_whitespace(text)
      [] name = "remove_empty_lines" -> remove_empty_lines(text)
      [] name = "compress_headers_aggressively" -> compress_headers_aggressively(text)
      [] name = "compress_formatting" -> compress_formatting(text)
      [] name = "compress_code_blocks" -> compress_code_blocks(text, model)
      [] name = "compress_lists_aggressively" -> compress_lists_aggressively(text)
      [] name = "remove_fluff_words" -> remove_fluff_words(text)
      [] name = "compress_sentences" -> compress_sentences(text)
      [] name = "remove_redundant_phrases" -> remove_redundant_phrases(text)
      [] name = "apply_extreme_ai_compression" -> apply_extreme_ai_compression(text)
      [] name = "apply_model_optimizations" -> apply_model_optimizations(text, model)
      [] name = "remove_code_blocks" -> remove_code_blocks(text)
      [] name = "remove_header_lines" -> remove_header_lines(text)
      [] name = "apply_arrow_notation" -> apply_arrow_notation(text)
      [] name = "apply_vrd_abbreviations" -> apply_vrd_abbreviations(text)
      [] name = "compress_vrd_lists" -> compress_vrd_lists(text)
      [] name = "compress_vrd_sentences" -> compress_vrd_sentences(text)
      [] name = "apply_extreme_vrd_compression" -> apply_extreme_vrd_compression(text)
      [] name = "apply_mathematical_notation" -> apply_mathematical_notation(text)

RECURSIVE RunStagesRange(_, _, _, _, _)
\* the passes lo..hi; the first half is computed before the second half begins
RunStagesRange(table, lo, hi, s, model) ==
    IF lo > hi THEN s
    ELSE IF lo = hi THEN Transform(table[lo], s, model)
    ELSE LET mid == (lo + hi) \div 2
             half == RunStagesRange(table, lo, mid, s, model)
         IN  IF half = s THEN RunStagesRange(table, mid + 1, hi, s, model)
             ELSE RunStagesRange(table, mid + 1, hi, half, model)

\* the statements "compressed = transform(&compressed)" from the k-th on
RunStages(table, k, s, model) == RunStagesRange(table, k, Len(table), s, model)

\* 404-441 as a function
compress_content(content, level, model, ai_mode, no_emojis) ==
    RunStages(MdStageSeq(level, ai_mode, no_emojis), 1, content, model)

\* the working text becomes text after transform name
Applied(name, text) ==
    /\ compressed' = text
    /\ applied' = Append(applied, name)
    /\ trace' = Append(trace, text)

\* a statement "compressed = name(&compressed)" under the condition on
Stage(on, name, text) ==
    IF on THEN Applied(name, text) ELSE UNCHANGED <<compressed, applied, trace>>

\* 408-410
CcRemoveEmojis ==
    /\ pc = "cc_emojis"
    /\ Stage(args.no_emojis, "remove_emojis", remove_emojis(compressed))
    /\ pc' = "cc_whitespace"
    /\ UNCHANGED <<mainVars, dedupVars, raw_content, vrd_file, tagVars, outVars>>

\* 413
CcWhitespace ==
    /\ pc = "cc_whitespace"
    /\ Applied("remove_excessive_whitespace", remove_excessive_whitespace(compressed))
    /\ pc' = "cc_empty_lines"
    /\ UNCHANGED <<mainVars, dedupVars, raw_content, vrd_file, tagVars, outVars>>

\* 414
CcEmptyLines ==
    /\ pc = "cc_empty_lines"
    /\ Applied("remove_empty_lines", remove_empty_lines(compressed))
    /\ pc' = "cc_headers"
    /\ UNCHANGED <<mainVars, dedupVars, raw_content, vrd_file, tagVars, outVars>>

\* 415
CcHeaders ==
    /\ pc = "cc_headers"
    /\ Applied("compress_headers_aggressively", compress_headers_aggressively(compressed))
    /\ pc' = "cc_formatting"
    /\ UNCHANGED <<mainVars, dedupVars, raw_content, vrd_file, tagVars, outVars>>

\* 416
CcFormatting ==
    /\ pc = "cc_formatting"
    /\ Applied("compress_formatting", compress_formatting(compressed))
    /\ pc' = "cc_code_blocks"
    /\ UNCHANGED <<mainVars, dedupVars, raw_content, vrd_file, tagVars, outVars>>

\* 419-421
CcCodeBlocks ==
    /\ pc = "cc_code_blocks"
    /\ Stage(MediumArm(args.level), "compress_code_blocks",
             compress_code_blocks(compressed, args.model))
    /\ pc' = "cc_lists"
    /\ UNCHANGED <<mainVars, dedupVars, raw_content, vrd_file, tagVars, outVars>>

\* 422
CcLists ==
    /\ pc = "cc_lists"
    /\ Stage(MediumArm(args.level), "compress_lists_aggressively",
             compress_lists_aggressively(compressed))
    /\ pc' = "cc_fluff"
    /\ UNCHANGED <<mainVars, dedupVars, raw_content, vrd_file, tagVars, outVars>>

\* 423
CcFluff ==
    /\ pc = "cc_fluff"
    /\ Stage(MediumArm(args.level), "remove_fluff_words", remove_fluff_words(compressed))
    /\ pc' = "cc_sentences"
    /\ UNCHANGED <<mainVars, dedupVars, raw_content, vrd_file, tagVars, outVars>>

\* 428-429
CcSentences ==
    /\ pc = "cc_sentences"
    /\ Stage(HighArm(args.level), "compress_sentences", compress_sentences(compressed))
    /\ pc' = "cc_redundant"
    /\ UNCHANGED <<mainVars, dedupVars, raw_content, vrd_file, tagVars, outVars>>

\* 430
CcRedundant ==
    /\ pc = "cc_redundant"
    /\ Stage(HighArm(args.level), "remove_redundant_phrases",
             remove_redundant_phrases(compressed))
    /\ pc' = "cc_extreme"
    /\ UNCHANGED <<mainVars, dedupVars, raw_content, vrd_file, tagVars, outVars>>

\* 433-435
CcExtremeAi ==
    /\ pc = "cc_extreme"
    /\ Stage(ExtremeArm(args.level, args.ai_mode), "apply_extreme_ai_compression",
             apply_extreme_ai_compression(compressed))
    /\ pc' = "cc_model"
    /\ UNCHANGED <<mainVars, dedupVars, raw_content, vrd_file, tagVars, outVars>>

\* 438-440
CcModelOptimizations ==
    /\ pc = "cc_model"
    /\ Applied("apply_model_optimizations", apply_model_optimizations(compressed, args.model))
    /\ pc' = "cc_done"
    /\ UNCHANGED <<mainVars, dedupVars, raw_content, vrd_file, tagVars, outVars>>

-----------------------------------------------------------------------------
(* process_file_for_vrd 742-776 and apply_vrd_compression 778-811 *)

\* a VrdFile without content
EmptyVrdFile ==
    [name |-> <<>>, modified |-> 0, size |-> 0, lines |-> 0, tags |-> <<>>, headers |-> <<>>,
     content |-> <<>>, code_blocks |-> <<>>]

\* 803: the arm "high" | "extreme" is taken
VrdHighArm(level) == level \in {"high", "extreme"}

\* the transforms apply_vrd_compression runs, in order
VrdStageSeq(level) ==
    <<"remove_code_blocks", "remove_header_lines", "remove_excessive_whitespace",
      "remove_empty_lines", "apply_arrow_notation", "apply_vrd_abbreviations",
      "compress_vrd_lists", "compress_vrd_sentences">>
    \o (IF VrdHighArm(level)
        THEN <<"apply_extreme_vrd_compression", "apply_mathematical_notation">>
        ELSE <<>>)

\* their names
VrdStages(level) == Range(VrdStageSeq(level))

\* 778-811 as a function
apply_vrd_compression(content, level) == RunStages(VrdStageSeq(level), 1, content, "")

\* 742-776 as a function; modified is the file's modification time
process_file_for_vrd(filename, content, a, modified) ==
    LET processed_content == IF a.no_emojis THEN remove_emojis(content) ELSE content
    IN  [name |-> filename,
         modified |-> modified,
         size |-> ByteLen(content),
         lines |-> Len(Lines(content)),
         tags |-> extract_enhanced_tags_from_content(content),
         headers |-> extract_headers_for_vrd(content, a.no_emojis),
         content |-> apply_vrd_compression(processed_content, a.level),
         code_blocks |-> extract_and_compress_code_blocks(processed_content)]

\* 744-766: the record is built from the file's name, its modification time and
\* the content as read; the file is the entry of all_files_content
PvInit ==
    /\ pc = "pv_init"
    /\ vrd_file' = [EmptyVrdFile EXCEPT
                       !.name = all_files_content[1].name,
                       !.modified = all_files_content[1].modified,
                       !.size = ByteLen(raw_content),
                       !.lines = Len(Lines(raw_content)),
                       !.tags = extract_enhanced_tags_from_content(raw_content),
                       !.headers = extract_headers_for_vrd(raw_content, args.no_emojis)]
    /\ pc' = "pv_emojis"
    /\ UNCHANGED <<mainVars, dedupVars, raw_content, compressed, applied, trace, tagVars, outVars>>

\* 768-770
PvRemoveEmojis ==
    /\ pc = "pv_emojis"
    /\ Stage(args.no_emojis, "remove_emojis", remove_emojis(compressed))
    /\ pc' = "pv_code_blocks"
    /\ UNCHANGED <<mainVars, dedupVars, raw_content, vrd_file, tagVars, outVars>>

\* 772
PvCodeBlocks ==
    /\ pc = "pv_code_blocks"
    /\ vrd_file' = [vrd_file EXCEPT !.code_blocks = extract_and_compress_code_blocks(compressed)]
    /\ pc' = "vc_code_blocks"
    /\ UNCHANGED <<mainVars, dedupVars, raw_content, compressed, applied, trace, tagVars, outVars>>

\* 782-783
VcRemoveCodeBlocks ==
    /\ pc = "vc_code_blocks"
    /\ Applied("remove_code_blocks", remove_code_blocks(compressed))
    /\ pc' = "vc_headers"
    /\ UNCHANGED <<mainVars, dedupVars, raw_content, vrd_file, tagVars, outVars>>

\* 786-790
VcRemoveHeaders ==
    /\ pc = "vc_headers"
    /\ Applied("remove_header_lines", remove_header_lines(compressed))
    /\ pc' = "vc_whitespace"
    /\ UNCHANGED <<mainVars, dedupVars, raw_content, vrd_file, tagVars, outVars>>

\* 793
VcWhitespace ==
    /\ pc = "vc_whitespace"
    /\ Applied("remove_excessive_whitespace", remove_excessive_whitespace(compressed))
    /\ pc' = "vc_empty_lines"
    /\ UNCHANGED <<mainVars, dedupVars, raw_content, vrd_file, tagVars, outVars>>

\* 794
VcEmptyLines ==
    /\ pc = "vc_empty_lines"
    /\ Applied("remove_empty_lines", remove_empty_lines(compressed))
    /\ pc' = "vc_arrows"
    /\ UNCHANGED <<mainVars, dedupVars, raw_content, vrd_file, tagVars, outVars>>

\* 797
VcArrows ==
    /\ pc = "vc_arrows"
    /\ Applied("apply_arrow_notation", apply_arrow_notation(compressed))
    /\ pc' = "vc_abbreviations"
    /\ UNCHANGED <<mainVars, dedupVars, raw_content, vrd_file, tagVars, outVars>>

\* 798
VcAbbreviations ==
    /\ pc = "vc_abbreviations"
    /\ Applied("apply_vrd_abbreviations", apply_vrd_abbreviations(compressed))
    /\ pc' = "vc_lists"
    /\ UNCHANGED <<mainVars, dedupVars, raw_content, vrd_file, tagVars, outVars>>

\* 799
VcLists ==
    /\ pc = "vc_lists"
    /\ Applied("compress_vrd_lists", compress_vrd_lists(compressed))
    /\ pc' = "vc_sentences"
    /\ UNCHANGED <<mainVars, dedupVars, raw_content, vrd_file, tagVars, outVars>>

\* 800
VcSentences ==
    /\ pc = "vc_sentences"
    /\ Applied("compress_vrd_sentences", compress_vrd_sentences(compressed))
    /\ pc' = "vc_extreme"
    /\ UNCHANGED <<mainVars, dedupVars, raw_content, vrd_file, tagVars, outVars>>

\* 802-804
VcExtreme ==
    /\ pc = "vc_extreme"
    /\ Stage(VrdHighArm(args.level), "apply_extreme_vrd_compression",
             apply_extreme_vrd_compression(compressed))
    /\ pc' = "vc_math"
    /\ UNCHANGED <<mainVars, dedupVars, raw_content, vrd_file, tagVars, outVars>>

\* 805
VcMath ==
    /\ pc = "vc_math"
    /\ Stage(VrdHighArm(args.level), "apply_mathematical_notation",
             apply_mathematical_notation(compressed))
    /\ pc' = "pv_content"
    /\ UNCHANGED <<mainVars, dedupVars, raw_content, vrd_file, tagVars, outVars>>

\* 774-775
PvContent ==
    /\ pc = "pv_content"
    /\ vrd_file' = [vrd_file EXCEPT !.content = compressed]
    /\ pc' = "pv_done"
    /\ UNCHANGED <<mainVars, dedupVars, raw_content, compressed, applied, trace, tagVars, outVars>>

-----------------------------------------------------------------------------
(* remove_duplicate_content, main.rs 500-534 *)

DedupThreshold == 30

\* an inner loop that keeps every paragraph
DedupParagraphs_KeepAll(paragraphs, seen, unique_paragraphs, removed) ==
    [seen |-> seen, unique |-> unique_paragraphs \o paragraphs, removed |-> removed]

RECURSIVE DedupParagraphs(_, _, _, _)
\* the inner loop (509-524) over the paragraphs still to visit:
\* seen set, kept paragraphs and removal count after the loop
DedupParagraphs(paragraphs, seen, unique_paragraphs, removed) ==
    IF paragraphs = <<>>
    THEN [seen |-> seen, unique |-> unique_paragraphs, removed |-> removed]
    ELSE
        LET paragraph == Head(paragraphs)
            trimmed == Trim(paragraph)
        IN  IF ByteLen(trimmed) > DedupThreshold
            THEN IF trimmed \notin seen
                 THEN DedupParagraphs(Tail(paragraphs), seen \cup {trimmed},
                                      Append(unique_paragraphs, paragraph), removed)
                 ELSE DedupParagraphs(Tail(paragraphs), seen, unique_paragraphs,
                                      removed + 1)
            ELSE DedupParagraphs(Tail(paragraphs), seen,
                                 Append(unique_paragraphs, paragraph), removed)

\* a fresh seen set for every file: duplicates are found inside one file only
DedupOneFile_FreshSeen(file, seen, removed) ==
    LET r == DedupParagraphs(Split(file.content, NL), {}, <<>>, removed)
    IN  [seen |-> r.seen,
         removed |-> r.removed,
         file |-> [file EXCEPT !.content = Join(r.unique, <<NL>>)]]

\* one iteration of the outer loop (505-527) on one file
DedupOneFile(file, seen, removed) ==
    LET r == DedupParagraphs(Split(file.content, NL), seen, <<>>, removed)
    IN  [seen |-> r.seen,
         removed |-> r.removed,
         file |-> [file EXCEPT !.content = Join(r.unique, <<NL>>)]]

RECURSIVE DedupFiles(_, _, _, _)
\* the outer loop from file k on
DedupFiles(files, k, seen, removed) ==
    IF k > Len(files) THEN <<>>
    ELSE LET r == DedupOneFile(files[k], seen, removed)
         IN  <<r.file>> \o DedupFiles(files, k + 1, r.seen, r.removed)

\* 500-534 as a function
remove_duplicate_content(files) == DedupFiles(files, 1, {}, 0)

\* the pass is never requested
DedupWanted_Never(level) == FALSE

\* main.rs 110: if args.level != "low"
DedupWanted(level) == level # "low"

\* remove_duplicate_content is entered: the vector is moved in, the locals are fresh
DedupCall ==
    /\ pc = "main_dedup"
    /\ DedupWanted(args.level)
    /\ dedup_input' = all_files_content
    /\ seen_paragraphs' = {}
    /\ deduplicated' = <<>>
    /\ duplicates_removed' = 0
    /\ pc' = "dedup"
    /\ UNCHANGED <<mainVars, pipeVars, tagVars, outVars>>

\* main.rs 110: at level low the pass is not run
DedupSkip ==
    /\ pc = "main_dedup"
    /\ ~DedupWanted(args.level)
    /\ pc' = "main_compress"
    /\ UNCHANGED <<mainVars, dedupVars, pipeVars, tagVars, outVars>>

\* one pass of the loop at 505-527
DedupFile ==
    /\ pc = "dedup"
    /\ Len(deduplicated) < Len(dedup_input)
    /\ LET r == DedupOneFile(dedup_input[Len(deduplicated) + 1], seen_paragraphs,
                             duplicates_removed)
       IN  /\ seen_paragraphs' = r.seen
           /\ duplicates_removed' = r.removed
           /\ deduplicated' = Append(deduplicated, r.file)
    /\ UNCHANGED <<pc, mainVars, dedup_input, pipeVars, tagVars, outVars>>

\* 533 and main.rs 112: the result replaces all_files_content
DedupReturn ==
    /\ pc = "dedup"
    /\ Len(deduplicated) = Len(dedup_input)
    /\ all_files_content' = deduplicated
    /\ pc' = "main_compress"
    /\ UNCHANGED <<args, md_files, files_with_time, compress_calls, vrd_files, output,
                   dedupVars, pipeVars, tagVars, outVars>>

-----------------------------------------------------------------------------
(* main 83-136, read_all_files_with_sorting 181-220, compress_all_content   *)
(* 245-284, generate_vrd_content 696-706, build_vrd_output 1145-1212        *)

\* the text of an argument value
Chars(value) ==
    CASE value = "low" -> <<"l", "o", "w">> [] value = "medium" -> <<"m", "e", "d", "i", "u", "m">>
      [] value = "high" -> <<"h", "i", "g", "h">> [] value = "extreme" -> <<"e", "x", "t", "r", "e", "m", "e">>
      [] value = "claude" -> <<"c", "l", "a", "u", "d", "e">> [] value = "gpt" -> <<"g", "p", "t">>
      [] value = "copilot" -> <<"c", "o", "p", "i", "l", "o", "t">>

DecimalDigits == <<"0", "1", "2", "3", "4", "5", "6", "7", "8", "9">>

RECURSIVE ToDecimal(_)
\* Display for usize
ToDecimal(n) ==
    IF n < 10 THEN <<DecimalDigits[n + 1]>>
    ELSE ToDecimal(n \div 10) \o <<DecimalDigits[(n % 10) + 1]>>

SecondsPerDay == 24 * 3600

\* the instant the placeholder of 1156 names, in seconds since the epoch: the
\* first second of 2025, 20089 days after the epoch
PlaceholderInstant == 20089 * SecondsPerDay

\* %Y-%m-%d of the two days the times of the model lie in
FormatDate(days) ==
    IF days = PlaceholderInstant \div SecondsPerDay
    THEN <<"2", "0", "2", "5", "-", "0", "1", "-", "0", "1">>
    ELSE <<"1", "9", "7", "0", "-", "0", "1", "-", "0", "1">>

\* DateTime::format("%Y-%m-%dT%H:%M:%SZ") of a time in the first minute of its
\* day, given as its seconds since the epoch
FormatTime(t) ==
    FormatDate(t \div SecondsPerDay) \o <<"T", "0", "0", ":", "0", "0", ":">>
    \o (IF t % SecondsPerDay < 10 THEN <<"0">> ELSE <<>>) \o ToDecimal(t % SecondsPerDay)
    \o <<"Z">>

\* a.1.cmp(&b.1) is Less or Equal: x stays behind the entries that are not later
RECURSIVE InsertByTime(_, _)
InsertByTime(x, v) ==
    IF v = <<>> THEN <<x>>
    ELSE IF x.time < Head(v).time THEN <<x>> \o v
    ELSE <<Head(v)>> \o InsertByTime(x, Tail(v))

RECURSIVE SortByTimeFrom(_, _)
SortByTimeFrom(v, sorted) ==
    IF v = <<>> THEN sorted ELSE SortByTimeFrom(Tail(v), InsertByTime(Head(v), sorted))

\* a sort that reverses the entries of equal time
SortByTime_Reversing(v) ==
    LET w == SortByTimeFrom(v, <<>>)
        ahead(k) == Cardinality({j \in 1..Len(w) : w[j].time < w[k].time})
        same(k) == Cardinality({j \in 1..Len(w) : w[j].time = w[k].time})
    IN  [k \in 1..Len(w) |-> w[ahead(k) + (same(k) - (k - ahead(k))) + 1]]

\* 198: slice::sort_by, a stable sort
SortByTime(v) == SortByTimeFrom(v, <<>>)

\* 305-326
create_abbreviation_dictionary ==
    <<"D", "I", "C", "T", ":", "{", "F", "N", "=", "f", "u", "n", "c", "t", "i", "o", "n", ",", "P", "A", "R", "A", "M", "=", "p", "a", "r", "a", "m", "e", "t", "e", "r", ",", "D", "O", "C", "=", "d", "o", "c", "u", "m", "e", "n", "t", "a", "t", "i", "o", "n", ",", "E", "X", "=", "e", "x", "a", "m", "p", "l", "e", ",", "I", "N", "S", "T", "=", "i", "n", "s", "t", "a", "l", "l", "a", "t", "i", "o", "n", ",">>
    \o <<"C", "F", "G", "=", "c", "o", "n", "f", "i", "g", "u", "r", "a", "t", "i", "o", "n", ",", "A", "U", "T", "H", "=", "a", "u", "t", "h", "e", "n", "t", "i", "c", "a", "t", "i", "o", "n", ",", "D", "B", "=", "d", "a", "t", "a", "b", "a", "s", "e", ",", "M", "W", "=", "m", "i", "d", "d", "l", "e", "w", "a", "r", "e", ",", "C", "O", "M", "P", "=", "c", "o", "m", "p", "o", "n", "e", "n", "t", "}", "\n">>

\* 286-303
create_model_header(model, ai_mode) ==
    <<"T", "A", "R", "G", "E", "T", ":">> \o ToUpper(Chars(model)) \o <<"\n">>
    \o (IF ai_mode THEN <<"M", "O", "D", "E", ":", "A", "I", "_", "O", "P", "T", "I", "M", "I", "Z", "E", "D", "\n">> \o create_abbreviation_dictionary ELSE <<>>)
    \o (CASE model = "claude" -> <<"N", "O", "T", "E", ":", "S", "t", "r", "u", "c", "t", "u", "r", "e", "d", " ", "d", "a", "t", "a", " ", "w", "i", "t", "h", " ", "t", "e", "c", "h", "n", "i", "c", "a", "l", " ", "n", "o", "t", "a", "t", "i", "o", "n", "\n">>
          [] model = "gpt" -> <<"N", "O", "T", "E", ":", "C", "o", "n", "s", "i", "s", "t", "e", "n", "t", " ", "f", "o", "r", "m", "a", "t", "t", "i", "n", "g", " ", "w", "i", "t", "h", " ", "e", "x", "p", "l", "i", "c", "i", "t", " ", "c", "o", "n", "t", "e", "x", "t", "\n">>
          [] model = "copilot" -> <<"N", "O", "T", "E", ":", "C", "o", "d", "e", "-", "f", "o", "c", "u", "s", "e", "d", " ", "w", "i", "t", "h", " ", "f", "i", "l", "e", "-", "t", "y", "p", "e", " ", "h", "i", "n", "t", "s", "\n">>
          [] OTHER -> <<>>)
    \o <<"-", "-", "-", "\n">>

\* the placeholder of 1156
MetaPlaceholder == <<"M", "E", "T", "A", ":", "{", "f", "i", "l", "e", "s", ":", "0", ",", "t", "o", "k", "e", "n", "s", ":", "0", ",", "c", "o", "m", "p", "r", "e", "s", "s", "e", "d", ":", "0", ".", "0", "%", ",", "g", "e", "n", "e", "r", "a", "t", "e", "d", ":", "2", "0", "2", "5", "-", "0", "1", "-", "0", "1", "T", "0", "0", ":", "0", "0", ":", "0", "0", "Z", "}">>

\* 1159-1177
VrdDictionary ==
    <<"D", "I", "C", "T", ":", "{", "F", "N", "=", "f", "u", "n", "c", "t", "i", "o", "n", ",", "P", "A", "R", "A", "M", "=", "p", "a", "r", "a", "m", "e", "t", "e", "r", ",", "A", "U", "T", "H", "=", "a", "u", "t", "h", "e", "n", "t", "i", "c", "a", "t", "i", "o", "n", ",", "D", "B", "=", "d", "a", "t", "a", "b", "a", "s", "e", ",">>
    \o <<"A", "P", "I", "=", "a", "p", "p", "l", "i", "c", "a", "t", "i", "o", "n", " ", "p", "r", "o", "g", "r", "a", "m", "m", "i", "n", "g", " ", "i", "n", "t", "e", "r", "f", "a", "c", "e", ",", "C", "F", "G", "=", "c", "o", "n", "f", "i", "g", "u", "r", "a", "t", "i", "o", "n", ",", "D", "O", "C", "=", "d", "o", "c", "u", "m", "e", "n", "t", "a", "t", "i", "o", "n", ",">>
    \o <<"I", "M", "P", "L", "=", "i", "m", "p", "l", "e", "m", "e", "n", "t", "a", "t", "i", "o", "n", ",", "E", "N", "V", "=", "e", "n", "v", "i", "r", "o", "n", "m", "e", "n", "t", ",", "R", "E", "P", "O", "=", "r", "e", "p", "o", "s", "i", "t", "o", "r", "y", "}", "\n", "-", "-", "-", "\n">>

\* 1183-1208: the lines of one file
VrdRecord(file) ==
    <<"F", ":">> \o file.name \o <<"|", "D", ":">> \o FormatTime(file.modified) \o <<"|", "S", ":">> \o ToDecimal(file.size)
    \o <<"|", "L", ":">> \o ToDecimal(file.lines) \o <<"|", "T", ":">> \o Join(file.tags, <<",">>) \o <<"\n">>
    \o (IF file.headers # <<>> THEN <<"H", ":">> \o Join(file.headers, <<",">>) \o <<"\n">> ELSE <<>>)
    \o (IF Trim(file.content) # <<>> THEN <<"C", ":">> \o Trim(file.content) \o <<"\n">> ELSE <<>>)
    \o Flatten([k \in 1..Len(file.code_blocks) |-> <<"X", ":">> \o file.code_blocks[k] \o <<"\n">>])
    \o <<"|", "\n">>

\* 1145-1212
build_vrd_output(files, a) ==
    <<"V", "R", "D", "1", ".", "0", "|", "T", "A", "R", "G", "E", "T", ":">> \o ToUpper(Chars(a.model)) \o <<"|", "M", "O", "D", "E", ":">> \o ToUpper(Chars(a.level))
    \o <<"|", "C", "H", "U", "N", "K", "S", ":", "1", "/", "1", "\n">>
    \o MetaPlaceholder \o <<"\n">>
    \o VrdDictionary
    \o Flatten([i \in 1..Len(files) |->
                   (IF i > 1 THEN <<"\n">> ELSE <<>>) \o VrdRecord(files[i])])

\* 713-723: the metadata of a payload of compressed_size bytes made from files;
\* the ratio is kept as the quotient (original - compressed) / original it is
\* computed from (times 100 when printed), 0 / 0 standing for the 0.0 of 720
VrdMetadata(files, compressed_size, original_size, now) ==
    [files_count |-> Len(files),
     estimated_tokens |-> compressed_size \div 4,
     compression_ratio |->
         IF original_size > 0
         THEN [num |-> original_size - compressed_size, den |-> original_size]
         ELSE [num |-> 0, den |-> 0],
     generated |-> now]

\* the digits of a number of tenths
TenthsText(q) == ToDecimal(q \div 10) \o <<".">> \o ToDecimal(q % 10)

\* the tenths nearest to a / den; at a tie the one the rounding of the f64
\* arithmetic leaves nearer, which is either neighbour
NearestTenths(a, den) ==
    IF 2 * (a % den) < den THEN {a \div den}
    ELSE IF 2 * (a % den) > den THEN {a \div den + 1}
    ELSE {a \div den, a \div den + 1}

Abs(n) == IF n < 0 THEN 0 - n ELSE n

\* format!("{:.1}") of the f64 ratio * 100.0: the decimal of one fractional digit
\* nearest to the value, with the sign of the value
OneDecimalTexts(ratio) ==
    IF ratio.den = 0 THEN {<<"0", ".", "0">>}
    ELSE {(IF ratio.num < 0 THEN <<"-">> ELSE <<>>) \o TenthsText(q) :
             q \in NearestTenths(1000 * Abs(ratio.num), ratio.den)}

\* 732-738: the line that replaces the placeholder
MetadataTexts(m) ==
    {<<"M", "E", "T", "A", ":", "{", "f", "i", "l", "e", "s", ":">> \o ToDecimal(m.files_count)
     \o <<",", "t", "o", "k", "e", "n", "s", ":">> \o ToDecimal(m.estimated_tokens)
     \o <<",", "c", "o", "m", "p", "r", "e", "s", "s", "e", "d", ":">> \o r
     \o <<"%", ",", "g", "e", "n", "e", "r", "a", "t", "e", "d", ":">> \o FormatTime(m.generated)
     \o <<"}">> : r \in OneDecimalTexts(m.compression_ratio)}

\* s with its first occurrence of from, if there is one, replaced by to
ReplaceFirst(s, from, to) ==
    Splice(s, FindFrom(Lit(from), s, 1), LAMBDA m : to)

\* a substitution that fills in the first placeholder only
update_vrd_metadata_FirstOnly(content, text) == ReplaceFirst(content, MetaPlaceholder, text)

\* 729-740, given the formatted line
update_vrd_metadata(content, text) == StrReplace(content, MetaPlaceholder, text)

\* Utc::now(): the instant of the placeholder and the second after it
Clock == {PlaceholderInstant, PlaceholderInstant + 1}

\* 202-219: the files that can be read, in the order of the vector
FilesRead(entries) ==
    LET ok == SelectSeq(entries, LAMBDA e : e.file.readable)
    IN  [k \in 1..Len(ok) |->
            [name |-> ok[k].file.name, content |-> ok[k].file.content,
             modified |-> ok[k].file.modified]]

RECURSIVE SumOf(_)
\* Iterator::sum
SumOf(ns) == IF ns = <<>> THEN 0 ELSE Head(ns) + SumOf(Tail(ns))

\* 207, 257: the sum of the byte lengths of the contents
SizeOf(files) == SumOf([k \in 1..Len(files) |-> ByteLen(files[k].content)])

\* 208, 259: the sum of their line counts
LinesOf(files) == SumOf([k \in 1..Len(files) |-> Len(Lines(files[k].content))])

\* 217: the files whose content cannot be read, in the order of the vector
FilesFailed(entries) ==
    LET bad == SelectSeq(entries, LAMBDA e : ~e.file.readable)
    IN  [k \in 1..Len(bad) |-> bad[k].file.name]

\* 190-195: the files whose metadata can be read, with their modification times
ReadTimes ==
    /\ pc = "read_times"
    /\ files_with_time' =
           LET ok == SelectSeq(md_files, LAMBDA f : f.metadata_ok)
           IN  [k \in 1..Len(ok) |-> [file |-> ok[k], time |-> ok[k].modified]]
    /\ pc' = "read_sort"
    /\ UNCHANGED <<args, md_files, all_files_content, compress_calls, vrd_files, output,
                   dedupVars, pipeVars, tagVars, outVars>>

\* 197-200
SortFiles ==
    /\ pc = "read_sort"
    /\ files_with_time' =
           IF args.chronological THEN SortByTime(files_with_time) ELSE files_with_time
    /\ pc' = "read_contents"
    /\ UNCHANGED <<args, md_files, all_files_content, compress_calls, vrd_files, output,
                   dedupVars, pipeVars, tagVars, outVars>>

\* 202-219: the files that can be read are counted and pushed in that order, the
\* others are reported
ReadContents ==
    /\ pc = "read_contents"
    /\ all_files_content' = FilesRead(files_with_time)
    /\ stats' = [stats EXCEPT
                     !.original_size = @ + SizeOf(FilesRead(files_with_time)),
                     !.original_lines = @ + LinesOf(FilesRead(files_with_time))]
    /\ errors' = errors \o FilesFailed(files_with_time)
    /\ pc' = "main_dedup"
    /\ UNCHANGED <<args, md_files, files_with_time, compress_calls, vrd_files, output,
                   dedupVars, pipeVars, tagVars, chunk_num, chunk_files, vrd_content,
                   metadata>>

\* 246, 267-268, 697: compress_all_content is entered with a supported format
CompressAllBegin ==
    /\ pc = "main_compress"
    /\ args.format \in {"md", "vrd"}
    /\ output' = IF args.format = "md" THEN create_model_header(args.model, args.ai_mode)
                 ELSE <<>>
    /\ pc' = "compress_files"
    /\ UNCHANGED <<args, md_files, files_with_time, all_files_content, compress_calls,
                   vrd_files, dedupVars, pipeVars, tagVars, outVars>>

\* 279-282
UnsupportedFormat ==
    /\ pc = "main_compress"
    /\ args.format \notin {"md", "vrd"}
    /\ pc' = "exit_1"
    /\ UNCHANGED <<mainVars, dedupVars, pipeVars, tagVars, outVars>>

\* the file the loops at 270 and 700 visit next
NextFile == all_files_content[Len(compress_calls) + 1]

\* 270-275: one pass of the markdown loop
CompressFileMd ==
    /\ pc = "compress_files"
    /\ args.format = "md"
    /\ Len(compress_calls) < Len(all_files_content)
    /\ compress_calls' = Append(compress_calls, NextFile)
    /\ output' = output \o <<"F", ":">> \o NextFile.name \o <<"\n">>
                 \o compress_content(NextFile.content, args.level, args.model, args.ai_mode,
                                     args.no_emojis)
                 \o <<"\n", "|", "\n">>
    /\ UNCHANGED <<pc, args, md_files, files_with_time, all_files_content, vrd_files,
                   dedupVars, pipeVars, tagVars, outVars>>

\* 700-703: one pass of the VRD loop
ProcessFileVrd ==
    /\ pc = "compress_files"
    /\ args.format = "vrd"
    /\ Len(compress_calls) < Len(all_files_content)
    /\ compress_calls' = Append(compress_calls, NextFile)
    /\ vrd_files' = Append(vrd_files,
                           process_file_for_vrd(NextFile.name, NextFile.content, args,
                                                NextFile.modified))
    /\ UNCHANGED <<pc, args, md_files, files_with_time, all_files_content, output,
                   dedupVars, pipeVars, tagVars, outVars>>

\* 277: the markdown payload is returned
CompressAllEndMd ==
    /\ pc = "compress_files"
    /\ args.format = "md"
    /\ Len(compress_calls) = Len(all_files_content)
    /\ pc' = "main_output"
    /\ UNCHANGED <<mainVars, dedupVars, pipeVars, tagVars, outVars>>

\* 706: the VRD payload is built from the records
BuildVrdOutput ==
    /\ pc = "compress_files"
    /\ args.format = "vrd"
    /\ Len(compress_calls) = Len(all_files_content)
    /\ output' = build_vrd_output(vrd_files, args)
    /\ pc' = "vrd_built"
    /\ UNCHANGED <<args, md_files, files_with_time, all_files_content, compress_calls,
                   vrd_files, dedupVars, pipeVars, tagVars, outVars>>

\* 709-726, 255-263: the metadata is computed from the payload as built and from
\* the documents handed over, and written in place of the placeholder
UpdateVrdMetadata ==
    /\ pc = "vrd_built"
    /\ \E now \in Clock :
         metadata' = VrdMetadata(all_files_content, ByteLen(output),
                                 SizeOf(all_files_content), now)
    /\ vrd_content' = output
    /\ \E text \in MetadataTexts(metadata') : output' = update_vrd_metadata(output, text)
    /\ pc' = "main_output"
    /\ UNCHANGED <<args, md_files, files_with_time, all_files_content, compress_calls,
                   vrd_files, dedupVars, pipeVars, tagVars, stats, errors, chunk_num,
                   chunk_files>>

-----------------------------------------------------------------------------
(* create_chunks 329-385, update_vrd_chunk_header 1120-1143,                *)
(* write_single_file 387-402                                                *)

(* usize, 64 bits wide. A number of the model stands for the usize that is   *)
(* congruent to it modulo 2^64: a number n >= 0 for n itself, a number       *)
(* -d < 0 for 2^64 - d, so that -1 is usize::MAX. The numbers of the model   *)
(* are near 0, so those below 0 stand for values of at least 2^63, and the   *)
(* wrapping sum and difference of two usize are the sum and difference of    *)
(* the numbers that stand for them.                                          *)

\* the usize 2^64 - d, for d >= 1
Huge(d) == 0 - d

IsHuge(x) == x < 0

\* a < b as usize
UsizeLess(a, b) == IF IsHuge(a) = IsHuge(b) THEN a < b ELSE IsHuge(b)

\* a + b is 2^64 or more
AddOverflows(a, b) ==
    \/ IsHuge(a) /\ IsHuge(b)
    \/ (IsHuge(a) \/ IsHuge(b)) /\ a + b >= 0

\* a - b is below 0
SubOverflows(a, b) == UsizeLess(a, b)

\* a / b as usize, for b other than 0. A divisor of 2^63 or more gives 0 or 1.
\* The quotient of a number of 2^63 or more by a divisor from 2 on has no
\* number in the model: 333 divides such a number only by the budget, which is
\* then as large
UsizeDiv(a, b) ==
    CASE ~IsHuge(a) /\ ~IsHuge(b) -> a \div b
      [] IsHuge(b) -> IF UsizeLess(a, b) THEN 0 ELSE 1
      [] IsHuge(a) /\ b = 1 -> a

\* 333: an addition or the subtraction leaves the range of usize; a build with
\* overflow checks panics there
TotalChunksOverflows(total_lines, chunk_size) ==
    \/ AddOverflows(total_lines, chunk_size)
    \/ SubOverflows(total_lines + chunk_size, 1)

\* 333, for a chunk_size other than 0: the value the division gives, with the
\* wrapped sum where the arithmetic leaves the range and the build does not check
TotalChunks(total_lines, chunk_size) ==
    UsizeDiv(total_lines + chunk_size - 1, chunk_size)

\* std::cmp::min of two usize
Min(a, b) == IF UsizeLess(a, b) THEN a ELSE b

\* 338-340: lines[start_idx..end_idx] of chunk chunk_num, counted from 0
ChunkLines(lines, c, chunk_size) ==
    SubSeq(lines, c * chunk_size + 1, Min(c * chunk_size + chunk_size, Len(lines)))

\* 354, 369: the extension of the format
Extension(format) == IF format = "vrd" THEN <<"v", "r", "d">> ELSE <<"m", "d">>

\* 353-357, 368-372, 1129-1133: the name of the n-th chunk file
ChunkFilenameWith(a, n, ext) ==
    a.output
    \o (IF Contains(a.output, <<"c", "h", "u", "n", "k">>) THEN <<"_">>
        ELSE <<"_", "c", "h", "u", "n", "k", "_">>)
    \o ToDecimal(n) \o <<".">> \o ext

\* 353-357, 368-372
ChunkFilename(a, n) == ChunkFilenameWith(a, n, Extension(a.format))

\* 1123-1124, 1137: the CHUNKS field of the VRD header
ChunksField(i, n) ==
    <<"C", "H", "U", "N", "K", "S", ":">> \o ToDecimal(i) \o <<"/">> \o ToDecimal(n)

\* 1120-1143, chunk_num counted from 1
update_vrd_chunk_header(content, c, total_chunks, a) ==
    IF c < total_chunks
    THEN StrReplace(StrReplace(content, ChunksField(1, 1), ChunksField(c, total_chunks)),
                    ChunksField(c, total_chunks),
                    ChunksField(c, total_chunks) \o <<"|", "N", "E", "X", "T", ":">>
                        \o ChunkFilenameWith(a, c + 1, <<"v", "r", "d">>))
    ELSE StrReplace(content, ChunksField(1, 1), ChunksField(c, total_chunks))

\* 351-360: the first line of a markdown chunk, chunk_num counted from 0
MdChunkHead(c, total_chunks, a) ==
    <<"C", "H", "U", "N", "K", ":">> \o ToDecimal(c + 1) \o <<"/">> \o ToDecimal(total_chunks)
    \o (IF c + 1 < total_chunks
        THEN <<" ", "|", " ", "N", "E", "X", "T", ":">> \o ChunkFilename(a, c + 2)
        ELSE <<>>)
    \o <<"\n">>

\* 362-364: the text so far, followed by the footer that counts it
WithChunkEnd(text, line_count) ==
    text \o <<"\n", "-", "-", "-", "\n", "C", "H", "U", "N", "K", "_", "E", "N", "D", " ", "|", " ", "L", "i", "n", "e", "s", ":">>
    \o ToDecimal(line_count)
    \o <<" ", "|", " ", "E", "s", "t", ".", "t", "o", "k", "e", "n", "s", ":">>
    \o ToDecimal(ByteLen(text) \div 4)

\* 342-365: the content of the chunk made of chunk_lines, chunk_num counted from 0
ChunkContent(chunk_lines, c, total_chunks, a) ==
    IF a.format = "vrd"
    THEN update_vrd_chunk_header(Join(chunk_lines, <<NL>>), c + 1, total_chunks, a)
    ELSE WithChunkEnd(MdChunkHead(c, total_chunks, a) \o Join(chunk_lines, <<NL>>),
                      Len(chunk_lines))

\* at most this many writes of a run fail
MaxWriteFailures == 1

\* the writes that have failed so far
FailedWrites == SelectSeq(chunk_files, LAMBDA f : ~f.written)

\* the outcomes of the next fs::write
WriteOutcomes == IF Len(FailedWrites) < MaxWriteFailures THEN BOOLEAN ELSE {TRUE}

\* a write whose chunk is counted whether it succeeded or not
ChunkWritten_CountsAll(name, content, chunk_lines, ok) ==
    /\ chunk_files' = Append(chunk_files, [name |-> name, content |-> content,
                                           lines |-> chunk_lines, written |-> ok])
    /\ stats' = [stats EXCEPT !.compressed_size = @ + ByteLen(content),
                              !.compressed_lines = @ + Len(Lines(content))]
    /\ errors' = IF ok THEN errors ELSE Append(errors, name)

\* 374-381: fs::write of a chunk and what follows it
ChunkWritten(name, content, chunk_lines, ok) ==
    /\ chunk_files' = Append(chunk_files, [name |-> name, content |-> content,
                                           lines |-> chunk_lines, written |-> ok])
    /\ stats' = IF ok
                THEN [stats EXCEPT !.compressed_size = @ + ByteLen(content),
                                   !.compressed_lines = @ + Len(Lines(content))]
                ELSE stats
    /\ errors' = IF ok THEN errors ELSE Append(errors, name)

\* 330-335: create_chunks is entered and 333 gives a chunk count: the line
\* budget is not 0 and the arithmetic stays in range, or the build does not
\* check it
CreateChunksBegin ==
    /\ pc = "main_output"
    /\ args.chunk
    /\ args.max_lines # 0
    /\ chunk_num' = 0
    /\ pc' = "chunks"
    /\ UNCHANGED <<mainVars, dedupVars, pipeVars, tagVars, stats, errors, chunk_files,
                   vrd_content, metadata>>

\* 333: with a line budget of 0 the division panics; with one so large that
\* total_lines + chunk_size leaves the range of usize the addition panics in a
\* build with overflow checks
CreateChunksPanic ==
    /\ pc = "main_output"
    /\ args.chunk
    /\ \/ args.max_lines = 0
       \/ TotalChunksOverflows(Len(Lines(output)), args.max_lines)
    /\ pc' = "panic"
    /\ UNCHANGED <<mainVars, dedupVars, pipeVars, tagVars, outVars>>

\* 337-382: one pass of the loop
WriteChunk ==
    /\ pc = "chunks"
    /\ chunk_num < TotalChunks(Len(Lines(output)), args.max_lines)
    /\ \E ok \in WriteOutcomes :
         ChunkWritten(ChunkFilename(args, chunk_num + 1),
                      ChunkContent(ChunkLines(Lines(output), chunk_num, args.max_lines),
                                   chunk_num,
                                   TotalChunks(Len(Lines(output)), args.max_lines), args),
                      ChunkLines(Lines(output), chunk_num, args.max_lines), ok)
    /\ chunk_num' = chunk_num + 1
    /\ UNCHANGED <<pc, mainVars, dedupVars, pipeVars, tagVars, vrd_content, metadata>>

\* 384: the loop has ended
CreateChunksEnd ==
    /\ pc = "chunks"
    /\ chunk_num = TotalChunks(Len(Lines(output)), args.max_lines)
    /\ stats' = [stats EXCEPT !.chunks_created = chunk_num]
    /\ pc' = "main_stats"
    /\ UNCHANGED <<mainVars, dedupVars, pipeVars, tagVars, errors, chunk_num, chunk_files,
                   vrd_content, metadata>>

\* 387-402
WriteSingleFile ==
    /\ pc = "main_output"
    /\ ~args.chunk
    /\ \E ok \in BOOLEAN :
         /\ chunk_files' = Append(chunk_files,
                                  [name |-> args.output \o <<".">> \o Extension(args.format),
                                   content |-> output, lines |-> Lines(output),
                                   written |-> ok])
         /\ stats' = IF ok
                     THEN [stats EXCEPT !.compressed_size = ByteLen(output),
                                        !.compressed_lines = Len(Lines(output))]
                     ELSE stats
         /\ errors' = IF ok THEN errors
                      ELSE Append(errors, args.output \o <<".">> \o Extension(args.format))
    /\ pc' = "main_stats"
    /\ UNCHANGED <<mainVars, dedupVars, pipeVars, tagVars, chunk_num, vrd_content, metadata>>

-----------------------------------------------------------------------------
(* The deduplicator on its own: every vector of at most MaxDocs documents   *)
(* whose contents are made of the paragraphs below.                         *)

MaxDocs == 3

\* 31 characters: longer than the threshold
LongPara == Copies("=", 31)

\* a second text longer than the threshold
OtherLongPara == Copies("-", 31)

\* exactly 30 characters: at the threshold
ExactPara == Copies("=", 30)

\* LongPara with surrounding blanks: same trimmed text
PaddedPara == <<" ">> \o LongPara \o <<" ">>

\* 16 characters of two bytes each: 32 bytes
WidePara == Copies(EACUTE, 16)

ShortPara == <<"X">>

DedupContents ==
    {Join(ps, <<NL>>) : ps \in
        {<<LongPara>>, <<ShortPara, LongPara>>, <<LongPara, LongPara>>, <<PaddedPara>>,
         <<ExactPara>>, <<ExactPara, ExactPara>>, <<WidePara>>, <<WidePara, WidePara>>,
         <<OtherLongPara, PaddedPara>>, <<LongPara, ShortPara, OtherLongPara>>}}

FileNames == <<<<"a", ".", "m", "d">>, <<"b", ".", "m", "d">>, <<"c", ".", "m", "d">>, <<"d", ".", "m", "d">>>>

DefaultArgs ==
    [level |-> "medium", model |-> "claude", ai_mode |-> FALSE, no_emojis |-> TRUE,
     chronological |-> TRUE, format |-> "md"]

\* no transform function is running
NoPipe ==
    /\ raw_content = <<>>
    /\ compressed = <<>>
    /\ applied = <<>>
    /\ trace = <<>>
    /\ vrd_file = EmptyVrdFile

\* no tag extraction is running
NoTags ==
    /\ tags = {}
    /\ tag_vec = <<>>

\* 98-104
ZeroStats ==
    [original_size |-> 0, compressed_size |-> 0, original_lines |-> 0, compressed_lines |-> 0,
     chunks_created |-> 0]

\* 76-81: no metadata has been computed
NoMetadata ==
    [files_count |-> 0, estimated_tokens |-> 0, compression_ratio |-> [num |-> 0, den |-> 0],
     generated |-> 0]

\* nothing has been read or written
NoOut ==
    /\ stats = ZeroStats
    /\ errors = <<>>
    /\ chunk_num = 0
    /\ chunk_files = <<>>
    /\ vrd_content = <<>>
    /\ metadata = NoMetadata

InitDedup ==
    /\ pc = "dedup"
    /\ args = DefaultArgs
    /\ md_files = <<>>
    /\ files_with_time = <<>>
    /\ all_files_content = <<>>
    /\ compress_calls = <<>>
    /\ vrd_files = <<>>
    /\ output = <<>>
    /\ \E n \in 0..MaxDocs : \E cs \in [1..n -> DedupContents] :
         dedup_input = [i \in 1..n |-> [name |-> FileNames[i], content |-> cs[i]]]
    /\ seen_paragraphs = {}
    /\ deduplicated = <<>>
    /\ duplicates_removed = 0
    /\ NoPipe
    /\ NoTags
    /\ NoOut

NextDedup == DedupFile \/ DedupReturn

SpecDedup == InitDedup /\ [][NextDedup]_vars

DedupDone == pc = "dedup" /\ Len(deduplicated) = Len(dedup_input)

\* the paragraphs of input document i
InputParas(i) == Split(dedup_input[i].content, NL)

\* paragraph j of document i has the trimmed text of a paragraph before it in the run
SeenEarlier(i, j) ==
    \E i2 \in 1..i : \E j2 \in 1..Len(InputParas(i2)) :
        /\ i2 < i \/ j2 < j
        /\ Trim(InputParas(i2)[j2]) = Trim(InputParas(i)[j])

\* document i with the paragraphs deleted that are longer than the threshold under
\* the measure len and were seen earlier
ExpectedContent(i, len(_)) ==
    LET ps == InputParas(i)
        kept == SelectSeq([j \in 1..Len(ps) |-> j],
                          LAMBDA j : ~(len(Trim(ps[j])) > DedupThreshold /\ SeenEarlier(i, j)))
    IN  Join([k \in 1..Len(kept) |-> ps[kept[k]]], <<NL>>)

DedupContract(len(_)) ==
    DedupDone =>
        /\ Len(deduplicated) = Len(dedup_input)
        /\ \A i \in 1..Len(dedup_input) :
             /\ deduplicated[i].name = dedup_input[i].name
             /\ deduplicated[i].content = ExpectedContent(i, len)

\* C1: remove_duplicate_content keeps length, names and order, and deletes a
\* paragraph exactly when its trimmed text is longer than 30 characters and was
\* seen earlier in the run; paragraphs of at most 30 characters are always kept.
C1_CharContract == DedupContract(Len)

\* the same contract with the length taken in bytes, as String::len measures it
DedupByteContract == DedupContract(ByteLen)

\* the finished run deleted a WidePara (16 characters) as a duplicate
C1_WideDeleted ==
    /\ DedupDone
    /\ Len(dedup_input) = 2
    /\ dedup_input[1].content = WidePara
    /\ dedup_input[2].content = WidePara
    /\ deduplicated[2].content = <<>>

\* the trimmed paragraph texts of a content
TrimmedParas(content) ==
    LET ps == Split(content, NL) IN {Trim(ps[k]) : k \in 1..Len(ps)}

\* C2: deduplication is order-sensitive: of the documents that share a paragraph
\* longer than 30 characters, the one processed first keeps it and every later
\* one loses it, so [A,B] strips B and [B,A] strips A.
C2_OrderSensitive ==
    DedupDone =>
        \A i, j \in 1..Len(dedup_input) :
            i < j =>
                \A p \in TrimmedParas(dedup_input[i].content)
                           \cap TrimmedParas(dedup_input[j].content) :
                    (/\ Len(p) > DedupThreshold
                     /\ \A h \in 1..(i - 1) : p \notin TrimmedParas(dedup_input[h].content))
                    => /\ p \in TrimmedParas(deduplicated[i].content)
                       /\ p \notin TrimmedParas(deduplicated[j].content)

\* the spec's example, order [A,B]: A = "X\n" + paragraph, B = paragraph
C2_Witness ==
    /\ DedupDone
    /\ Len(dedup_input) = 2
    /\ dedup_input[1].content = ShortPara \o <<NL>> \o LongPara
    /\ dedup_input[2].content = LongPara
    /\ deduplicated[1].content = ShortPara \o <<NL>> \o LongPara
    /\ deduplicated[2].content = <<>>

\* the paragraphs of output document i
OutputParas(i) == Split(deduplicated[i].content, NL)

\* the places <<document, paragraph>> of the output where the trimmed text is p
OutputPlaces(p) ==
    UNION {{<<i, j>> : j \in {k \in 1..Len(OutputParas(i)) : Trim(OutputParas(i)[k]) = p}} :
              i \in 1..Len(deduplicated)}

\* the first place of the input, in processing order, where the trimmed text is p
FirstInputPlace(p) ==
    LET i == Least({h \in 1..Len(dedup_input) : p \in TrimmedParas(dedup_input[h].content)})
    IN  <<i, Least({j \in 1..Len(InputParas(i)) : Trim(InputParas(i)[j]) = p})>>

\* the paragraphs of input document i before the j-th that are not deleted
KeptBefore(i, j) ==
    Cardinality({k \in 1..(j - 1) :
                    ~(ByteLen(Trim(InputParas(i)[k])) > DedupThreshold /\ SeenEarlier(i, k))})

\* C19: after remove_duplicate_content has processed the documents, every trimmed
\* paragraph text longer than 30 characters occurs at most once in the whole output,
\* across the documents and inside each, and the occurrence that is left is the
\* first one of the input in processing order.
C19_OneSurvivor ==
    DedupDone =>
        \A h \in 1..Len(dedup_input) :
            \A p \in TrimmedParas(dedup_input[h].content) :
                Len(p) > DedupThreshold =>
                    LET first == FirstInputPlace(p)
                    IN  /\ OutputPlaces(p) = {<<first[1], KeptBefore(first[1], first[2]) + 1>>}
                        /\ OutputParas(first[1])[KeptBefore(first[1], first[2]) + 1]
                               = InputParas(first[1])[first[2]]

\* three documents hold the long paragraph four times, the first after a short
\* paragraph: it is left once, in the first document, second paragraph
C19_Witness ==
    /\ DedupDone
    /\ Len(dedup_input) = 3
    /\ dedup_input[1].content = Join(<<ShortPara, LongPara>>, <<NL>>)
    /\ dedup_input[2].content = Join(<<LongPara, LongPara>>, <<NL>>)
    /\ dedup_input[3].content = PaddedPara
    /\ OutputPlaces(LongPara) = {<<1, 2>>}
    /\ deduplicated[2].content = <<>>
    /\ deduplicated[3].content = <<>>

-----------------------------------------------------------------------------
(* The TextNormalizer on its own: remove_excessive_whitespace followed by   *)
(* remove_empty_lines, run on every text of at most MaxNormLen characters   *)
(* and then once more on its own output.                                    *)

MaxNormLen == 5

NormAlphabet == {"a", " ", TAB, NL, CR}

\* no deduplication is running
NoDedup ==
    /\ seen_paragraphs = {}
    /\ deduplicated = <<>>
    /\ duplicates_removed = 0
    /\ dedup_input = <<>>

NoMain ==
    /\ md_files = <<>>
    /\ files_with_time = <<>>
    /\ all_files_content = <<>>
    /\ compress_calls = <<>>
    /\ vrd_files = <<>>
    /\ output = <<>>

InitNorm ==
    /\ pc = "norm_whitespace"
    /\ raw_content \in SeqsUpTo(NormAlphabet, 0, MaxNormLen)
    /\ compressed = raw_content
    /\ applied = <<>>
    /\ trace = <<>>
    /\ vrd_file = EmptyVrdFile
    /\ args = DefaultArgs
    /\ NoMain
    /\ NoDedup
    /\ NoTags
    /\ NoOut

NormWhitespace ==
    /\ pc = "norm_whitespace"
    /\ Applied("remove_excessive_whitespace", remove_excessive_whitespace(compressed))
    /\ pc' = "norm_lines"
    /\ UNCHANGED <<mainVars, dedupVars, raw_content, vrd_file, tagVars, outVars>>

NormEmptyLines ==
    /\ pc = "norm_lines"
    /\ Applied("remove_empty_lines", remove_empty_lines(compressed))
    /\ pc' = "norm_done"
    /\ UNCHANGED <<mainVars, dedupVars, raw_content, vrd_file, tagVars, outVars>>

\* the normalizer is run again on its own output
NormAgain ==
    /\ pc = "norm_done"
    /\ Len(applied) = 2
    /\ pc' = "norm_whitespace"
    /\ UNCHANGED <<mainVars, dedupVars, pipeVars, tagVars, outVars>>

NextNorm == NormWhitespace \/ NormEmptyLines \/ NormAgain

SpecNorm == InitNorm /\ [][NextNorm]_vars

\* C9: TextNormalizer is idempotent: run on its own output (the second pass ends
\* after four transforms) it returns that output unchanged.
C9_Idempotent == Len(trace) = 4 => trace[4] = trace[2]

\* the same for texts without a carriage return
NormIdempotentNoCR == (Len(trace) = 4 /\ CR \notin Range(raw_content)) => trace[4] = trace[2]

-----------------------------------------------------------------------------
(* The tag extractor on its own, run on the documents below with every      *)
(* iteration order of the hash set.                                         *)

TagDocs ==
    {<<>>, <<"R", "e", "a", "c", "t", " ", "a", "n", "d", " ", "V", "u", "e">>, <<"j", "a", "v", "a", "s", "c", "r", "i", "p", "t">>, <<"d", "j", "a", "n", "g", "o", " ", "o", "n", " ", "m", "o", "n", "g", "o", "d", "b">>, <<"k", "u", "b", "e", "r", "n", "e", "t", "e", "s", ",", " ", "j", "a", "v", "a", "s", "c", "r", "i", "p", "t">>,
     <<"r", "e", "a", "c", "t", " ", "R", "e", "a", "c", "t", " ", "R", "E", "A", "C", "T">>, <<"r", "u", "s", "t", " ", "r", "u", "b", "y", " ", "p", "h", "p", " ", "a", "w", "s", " ", "g", "c", "p">>, <<"v", "u", "e", " ", "r", "u", "s", "t", " ", "g", "o", " ", "p", "h", "p", " ", "a", "w", "s", " ", "g", "c", "p">>,
     <<"V", "u", "e", " ", "R", "u", "s", "t", " ", "R", "u", "b", "y", " ", "P", "H", "P", " ", "G", "o", " ", "G", "C", "P", " ", "A", "W", "S", " ", "R", "e", "d", "i", "s">>}

InitTags ==
    /\ pc = "tags_scan"
    /\ raw_content \in TagDocs
    /\ compressed = <<>>
    /\ applied = <<>>
    /\ trace = <<>>
    /\ vrd_file = EmptyVrdFile
    /\ args = DefaultArgs
    /\ NoMain
    /\ NoDedup
    /\ NoTags
    /\ NoOut

NextTags == TagsScan \/ TagsCollect \/ TagsSort \/ TagsTruncate

SpecTags == InitTags /\ [][NextTags]_vars

\* the canonical tags of the lexicon entries whose pattern occurs in the document
LexiconTags(doc) ==
    {e[2] : e \in {e \in Range(all_patterns) : Contains(ToLower(doc), e[1])}}

\* the number of tags of S that sort before t
Rank(t, S) == Cardinality({u \in S : StrLess(u, t)})

\* C10: the result of extract_enhanced_tags_from_content is the first 5 (or all, if
\* fewer) of the sorted duplicate-free set of the matched entries' tags, whatever
\* order the hash set iterated in: it is strictly increasing, has at most 5
\* elements, and has exactly 5 for a document that matches 8 lexicon entries.
C10_TagsSortedCapped ==
    pc = "tags_done" =>
        LET S == LexiconTags(raw_content)
            n == IF Cardinality(S) < 5 THEN Cardinality(S) ELSE 5
        IN  /\ Len(tag_vec) = n
            /\ Len(tag_vec) <= 5
            /\ \A k \in 1..Len(tag_vec) : tag_vec[k] \in S /\ Rank(tag_vec[k], S) = k - 1
            /\ \A k \in 1..(Len(tag_vec) - 1) : StrLess(tag_vec[k], tag_vec[k + 1])
            /\ (Cardinality(MatchedEntries(raw_content)) = 8 => Len(tag_vec) = 5)

\* a document that matches 8 entries has been given its 5 tags, which are not the
\* first 5 in lexicon order
C10_Witness ==
    /\ pc = "tags_done"
    /\ Cardinality(MatchedEntries(raw_content)) = 8
    /\ tag_vec = <<<<"a", "w", "s">>, <<"g", "c", "p">>, <<"g", "o">>, <<"p", "h", "p">>, <<"r", "e", "d", "i", "s">>>>

-----------------------------------------------------------------------------
(* The two per-document pipelines on their own: compress_content and        *)
(* process_file_for_vrd run statement by statement on the documents below,  *)
(* for every level, model, ai_mode, no_emojis and format.                   *)

PipeDocs ==
    {<<"#", "#", " ", "S", "e", "t", "u", "p", " ", "G", "u", "i", "d", "e">>,
     <<"i", "n", "t", "r", "o", "\n", "#", "#", " ", "S", "e", "t", "u", "p", " ", "G", "u", "i", "d", "e">>,
     <<"#", "#", "#", "#", "#", " ", "T", "o", "o", " ", "D", "e", "e", "p">>,
     <<"#", " ", "T", "i", "t", "l", "e", "\n", "\n", "t", "h", "e", " ", "f", "u", "n", "c", "t", "i", "o", "n", " ", "r", "e", "t", "u", "r", "n", "s", " ", "a", " ", "v", "a", "l", "u", "e">>,
     <<BT, BT, BT, "j", "s", "\n", "c", "o", "n", "s", "t", " ", "x", " ", "=", " ", "1", ";", "\n", "\n", "r", "e", "t", "u", "r", "n", " ", "x", ";", "\n", BT, BT, BT>>,
     <<BT, BT, BT, "\n", "a", "\n", BT, BT, BT, "\n", "t", "e", "x", "t">>,
     <<BT, BT, BT, "c", "+", "+", "\n", "i", "n", "t", " ", "x", ";", "\n", BT, BT, BT>>,
     <<BT, BT, BT, "j", "s", "\n", "x">>,
     <<BT, BT, BT, EACUTE, "\n", "x", "\n", "y", "\n", BT, BT, BT>>,
     <<"h", "o", "w", "e", "v", "e", "r", ",", " ", "i", "t", " ", "i", "s", " ", "v", "e", "r", "y", " ", "i", "m", "p", "o", "r", "t", "a", "n", "t", " ", " ", "\n", "-", " ", "i", "t", "e", "m", "\n", "*", " ", "i", "t", "e", "m">>,
     <<"p", "l", "e", "a", "s", "e", " ", "n", "o", "t", "e", " ", "t", "h", "a", "t", " ", GRIN, " ", "i", "n", " ", "o", "r", "d", "e", "r", " ", "t", "o", " ", "g", "o">>,
     <<"#", "#", "#", " ", "S", "e", "c", "t", "i", "o", "n", "\n", "t", "e", "x", "t", " ", "t", "h", "e", "r", "e", "f", "o", "r", "e", " ", "x", " ", "e", "q", "u", "a", "l", "s", " ", "y">>}

\* the modification times of the file process_file_for_vrd is given
PipeTimes == {1, 2}

InitPipeline ==
    /\ args \in [level : Levels, model : Models, ai_mode : BOOLEAN, no_emojis : BOOLEAN,
                 chronological : {TRUE}, format : {"md", "vrd"}]
    /\ pc = IF args.format = "vrd" THEN "pv_init" ELSE "cc_emojis"
    /\ raw_content \in PipeDocs
    /\ compressed = raw_content
    /\ applied = <<>>
    /\ trace = <<>>
    /\ vrd_file = EmptyVrdFile
    /\ md_files = <<>>
    /\ files_with_time = <<>>
    /\ all_files_content \in
         (IF args.format = "vrd"
          THEN {<<[name |-> FileNames[1], content |-> raw_content, modified |-> t]>> :
                   t \in PipeTimes}
          ELSE {<<>>})
    /\ compress_calls = <<>>
    /\ vrd_files = <<>>
    /\ output = <<>>
    /\ NoDedup
    /\ NoTags
    /\ NoOut

NextCompressContent ==
    \/ CcRemoveEmojis \/ CcWhitespace \/ CcEmptyLines \/ CcHeaders \/ CcFormatting
    \/ CcCodeBlocks \/ CcLists \/ CcFluff \/ CcSentences \/ CcRedundant \/ CcExtremeAi
    \/ CcModelOptimizations

NextProcessFileForVrd ==
    \/ PvInit \/ PvRemoveEmojis \/ PvCodeBlocks \/ VcRemoveCodeBlocks \/ VcRemoveHeaders
    \/ VcWhitespace \/ VcEmptyLines \/ VcArrows \/ VcAbbreviations \/ VcLists \/ VcSentences
    \/ VcExtreme \/ VcMath \/ PvContent

NextPipeline == NextCompressContent \/ NextProcessFileForVrd

SpecPipeline == InitPipeline /\ [][NextPipeline]_vars

\* the statement-by-statement runs end with the values of the functions
PipelineAgrees ==
    /\ pc = "cc_done" =>
           compressed = compress_content(raw_content, args.level, args.model, args.ai_mode,
                                         args.no_emojis)
    /\ pc = "pv_done" =>
           vrd_file = process_file_for_vrd(all_files_content[1].name, raw_content, args,
                                           all_files_content[1].modified)

\* the text the k-th applied transform was given
Before(k) == IF k = 1 THEN raw_content ELSE trace[k - 1]

LevelOrder == <<"low", "medium", "high", "extreme">>

LevelRank(level) == CHOOSE k \in 1..4 : LevelOrder[k] = level

\* the transforms apply_vrd_compression has applied (remove_emojis is its caller's)
VrdApplied == Range(applied) \ {"remove_emojis"}

\* C5: tier monotonicity: the transforms a finished run applied are those of its
\* level; every one of them is applied at the next higher level, and every transform
\* of the next lower level is among them, in compress_content and in
\* apply_vrd_compression, for every ai_mode and model.
C5_TierMonotone ==
    /\ pc = "cc_done" =>
        /\ Range(applied) = MdStages(args.level, args.ai_mode, args.no_emojis)
        /\ \A l \in Levels :
             /\ LevelRank(l) = LevelRank(args.level) + 1 =>
                    Range(applied) \subseteq MdStages(l, args.ai_mode, args.no_emojis)
             /\ LevelRank(l) + 1 = LevelRank(args.level) =>
                    MdStages(l, args.ai_mode, args.no_emojis) \subseteq Range(applied)
    /\ pc = "pv_done" =>
        /\ VrdApplied = VrdStages(args.level)
        /\ \A l \in Levels :
             /\ LevelRank(l) = LevelRank(args.level) + 1 => VrdApplied \subseteq VrdStages(l)
             /\ LevelRank(l) + 1 = LevelRank(args.level) => VrdStages(l) \subseteq VrdApplied

\* a run of compress_content at level extreme, without ai_mode, has applied the
\* transforms of level high and the extreme one
C5_Witness ==
    /\ pc = "cc_done"
    /\ args.level = "extreme"
    /\ ~args.ai_mode
    /\ {"compress_sentences", "remove_redundant_phrases", "apply_extreme_ai_compression"}
           \subseteq Range(applied)

\* C6: with ai_mode, or at level extreme, the extreme substitutions have been
\* applied to the document when its run ends, in the markdown path
\* (apply_extreme_ai_compression) and in the VRD path
\* (apply_extreme_vrd_compression and apply_mathematical_notation).
C6_AiModeForcesExtreme ==
    (args.ai_mode \/ args.level = "extreme") =>
        /\ pc = "cc_done" => "apply_extreme_ai_compression" \in Range(applied)
        /\ pc = "pv_done" =>
               {"apply_extreme_vrd_compression", "apply_mathematical_notation"}
                   \subseteq Range(applied)

\* the markdown path alone does what C6 says
AiModeForcesExtremeMd ==
    (pc = "cc_done" /\ (args.ai_mode \/ args.level = "extreme")) =>
        "apply_extreme_ai_compression" \in Range(applied)

\* the number of '#' a line begins with
RECURSIVE LeadingHashes(_)
LeadingHashes(line) ==
    IF line # <<>> /\ Head(line) = "#" THEN 1 + LeadingHashes(Tail(line)) ELSE 0

\* a header line as C7 says it is rewritten
CompactedHeaderLine(line) ==
    LET n == LeadingHashes(line)
    IN  IF n \in 1..4 /\ Len(line) > n + 1 /\ line[n + 1] = " "
        THEN <<"H", <<"1", "2", "3", "4">>[n], ":">> \o SubSeq(line, n + 2, Len(line))
        ELSE line

\* C7: compress_headers_aggressively rewrites every line of 1 to 4 '#', a space and
\* text to H<level>:<text>, in a document of one line or of many, and leaves every
\* other line, those of 5 or more '#' included, unchanged.
C7_HeadersCompacted ==
    \A k \in 1..Len(applied) :
        applied[k] = "compress_headers_aggressively" =>
            LET ls == Split(Before(k), NL)
            IN  trace[k] = Join([j \in 1..Len(ls) |-> CompactedHeaderLine(ls[j])], <<NL>>)

\* the same for the documents of a single line
HeadersCompactedOneLine ==
    \A k \in 1..Len(applied) :
        (applied[k] = "compress_headers_aggressively" /\ NL \notin Range(Before(k))) =>
            trace[k] = CompactedHeaderLine(Before(k))

\* the first position at or after i where pat occurs in s; 0 if there is none
IndexOf(s, pat, i) ==
    LET hits == {j \in i..(Len(s) - Len(pat) + 1) : SubSeq(s, j, j + Len(pat) - 1) = pat}
    IN  IF hits = {} THEN 0 ELSE Least(hits)

\* a fenced block as C8 says it is rewritten
RewrittenBlock(lang, body, model) ==
    LET ls == Split(body, NL)
        kept == SelectSeq(ls, LAMBDA l : Trim(l) # <<>>)
    IN  IF model = "copilot"
        THEN (IF lang = <<>> THEN <<"C", "O", "D", "E">> ELSE ToUpper(lang)) \o <<":">> \o Join(kept, <<" ", "|", " ">>)
        ELSE (IF lang = <<>> THEN <<"C", "O", "D", "E", ":">> ELSE <<"C", "O", "D", "E", "(">> \o lang \o <<")", ":">>) \o Join(kept, <<"|">>)

RECURSIVE RewrittenFences(_, _)
\* the text with every terminated fenced block rewritten: a block is an opening
\* fence, its language tag up to the end of the line, and the body up to the next
\* fence; an unterminated fence is left as it is
RewrittenFences(text, model) ==
    LET open == IndexOf(text, Fence, 1)
        eol == IF open = 0 THEN 0 ELSE IndexOf(text, <<NL>>, open + 3)
        close == IF eol = 0 THEN 0 ELSE IndexOf(text, Fence, eol + 1)
    IN  IF close = 0 THEN text
        ELSE SubSeq(text, 1, open - 1)
             \o RewrittenBlock(SubSeq(text, open + 3, eol - 1), SubSeq(text, eol + 1, close - 1),
                               model)
             \o RewrittenFences(SubSeq(text, close + 3, Len(text)), model)

\* the text compress_content holds after compress_formatting
AfterFormatting == trace[CHOOSE k \in 1..Len(applied) : applied[k] = "compress_formatting"]

\* C8: at every level, once compress_content is past its code-block statement the
\* text has every terminated fenced block replaced by CODE:<body> or
\* CODE(<lang>):<body> (copilot: CODE:<body> or <LANG-UPPER>:<body>), the body being
\* the block's non-blank lines joined by '|' (copilot: ' | '); an unterminated fence
\* is left unmatched.
C8_CodeBlocksRewritten ==
    pc = "cc_lists" => compressed = RewrittenFences(AfterFormatting, args.model)

\* the same at the levels that run the statement, for the blocks whose opening
\* fence carries no tag or a tag of word characters
CodeBlocksRewrittenWordTag ==
    (/\ pc = "cc_lists"
     /\ MediumArm(args.level)
     /\ ~Contains(raw_content, <<"c", "+", "+">>)) =>
        compressed = RewrittenFences(AfterFormatting, args.model)

\* compress_content has returned from a run that applies the extreme substitutions
ExtremeDone == pc = "cc_done" /\ (args.level = "extreme" \/ args.ai_mode)

\* the number of whole-word occurrences of word in text
WordCount(word, text) == Len(AllMatches(WholeWord(word), text))

\* the number of occurrences of the character glyph in text
GlyphCount(glyph, text) == Len(AllMatches(Lit(<<glyph>>), text))

\* every whole-word occurrence of word in the document is a glyph in the result
SubstitutedBy(word, glyph) ==
    /\ GlyphCount(glyph, compressed) = WordCount(word, raw_content)
    /\ WordCount(word, compressed) = 0

\* C20: at level extreme, and with ai_mode at any level, compress_content turns
\* every whole-word 'therefore' of the document into the logic glyph and every
\* whole-word 'returns' into the arrow glyph.
C20_GlyphsSubstituted ==
    ExtremeDone =>
        /\ SubstitutedBy(<<"t", "h", "e", "r", "e", "f", "o", "r", "e">>, THEREFORE)
        /\ SubstitutedBy(<<"r", "e", "t", "u", "r", "n", "s">>, ARROW)

\* 'returns' becomes the arrow glyph in all those runs; 'therefore' becomes the
\* logic glyph in those below level high, and is deleted without a glyph at high
\* and extreme
GlyphsSubstitutedBelowHigh ==
    ExtremeDone =>
        /\ SubstitutedBy(<<"r", "e", "t", "u", "r", "n", "s">>, ARROW)
        /\ IF HighArm(args.level)
           THEN /\ GlyphCount(THEREFORE, compressed) = 0
                /\ WordCount(<<"t", "h", "e", "r", "e", "f", "o", "r", "e">>, compressed) = 0
           ELSE SubstitutedBy(<<"t", "h", "e", "r", "e", "f", "o", "r", "e">>, THEREFORE)

\* the fenced regions have been removed from the working text of a VRD run
FencesRemoved == pc = "vc_headers"

\* the text the code blocks were extracted from and the fenced regions removed from
TextWithFences == IF Len(trace) > 1 THEN trace[Len(trace) - 1] ELSE raw_content

\* the fenced regions apply_vrd_compression removes from text, in document order
FencedRegions(text) == AllMatches(re_fenced, text)

\* the code of the region m of text: what stands between the line of the opening
\* fence and the closing fence
FencedCode(text, m) ==
    LET inner == SubSeq(text, m.start + 3, m.end - 4)
        first == {i \in 1..Len(inner) : inner[i] = NL}
    IN  IF first = {} THEN inner ELSE SubSeq(inner, Least(first) + 1, Len(inner))

\* the code blocks of the record are the compacted codes of the regions, one each
\* and in their order
FragmentPerRegion(code_blocks, text, regions) ==
    /\ Len(code_blocks) = Len(regions)
    /\ \A k \in 1..Len(regions) :
         code_blocks[k] = compress_code_for_vrd(FencedCode(text, regions[k]), <<>>)

\* C21: in the VRD path every fenced region that apply_vrd_compression removes
\* from the body is held by the record's code blocks as exactly one compacted
\* fragment, in document order
C21_FragmentPerFencedBlock ==
    FencesRemoved =>
        /\ compressed = remove_code_blocks(TextWithFences)
        /\ FragmentPerRegion(vrd_file.code_blocks, TextWithFences,
                             FencedRegions(TextWithFences))

\* the region m of text opens with a fence line that holds nothing but an
\* optional run of word characters
PlainOpening(text, m) ==
    Match(Cat(<<Lit(Fence), Opt(Plus(WordChar)), Lit(<<NL>>)>>), text, m.start, NoCaps) # <<>>

\* what holds instead: the record has a fragment per region when every region
\* opens with such a line; on the documents here it has fewer fragments than
\* regions when one does not
FragmentPerPlainFencedBlock ==
    FencesRemoved =>
        /\ compressed = remove_code_blocks(TextWithFences)
        /\ IF \A k \in 1..Len(FencedRegions(TextWithFences)) :
                PlainOpening(TextWithFences, FencedRegions(TextWithFences)[k])
           THEN FragmentPerRegion(vrd_file.code_blocks, TextWithFences,
                                  FencedRegions(TextWithFences))
           ELSE Len(vrd_file.code_blocks) < Len(FencedRegions(TextWithFences))

-----------------------------------------------------------------------------
(* The run of main() from the discovered files to the payload, for every    *)
(* level and format, with and without chronological order, on at most       *)
(* MaxFiles files with modification times up to MaxTime.                    *)

MaxFiles == 3

MaxTime == 2

\* the i-th discovered file: one with the long paragraph alone, modified at time
\* t; one with a short paragraph before the long one; one whose metadata cannot
\* be read; one whose content cannot be read
LongFile(i, t) ==
    [name |-> FileNames[i], modified |-> t, metadata_ok |-> TRUE, readable |-> TRUE,
     content |-> LongPara]

ShortLongFile(i) ==
    [name |-> FileNames[i], modified |-> 1, metadata_ok |-> TRUE, readable |-> TRUE,
     content |-> ShortPara \o <<NL>> \o LongPara]

NoMetadataFile(i) ==
    [name |-> FileNames[i], modified |-> 1, metadata_ok |-> FALSE, readable |-> TRUE,
     content |-> LongPara]

UnreadableFile(i) ==
    [name |-> FileNames[i], modified |-> 1, metadata_ok |-> TRUE, readable |-> FALSE,
     content |-> <<>>]

\* the files offered at position i of the discovery order
FileChoices(i) ==
    CASE i = 1 -> {LongFile(i, t) : t \in 1..MaxTime} \cup {NoMetadataFile(i), UnreadableFile(i)}
      [] i = 2 -> {LongFile(i, t) : t \in 1..MaxTime} \cup {ShortLongFile(i)}
      [] OTHER -> {LongFile(i, 1), ShortLongFile(i), UnreadableFile(i)}

InitMain ==
    /\ pc = "read_times"
    /\ args \in [level : Levels, model : {"claude"}, ai_mode : {FALSE}, no_emojis : {TRUE},
                 chronological : BOOLEAN, format : {"md", "vrd", "txt"}]
    /\ \E n \in 0..MaxFiles : \E fs \in [1..n -> UNION {FileChoices(i) : i \in 1..n}] :
         /\ \A i \in 1..n : fs[i] \in FileChoices(i)
         /\ md_files = fs
    /\ files_with_time = <<>>
    /\ all_files_content = <<>>
    /\ compress_calls = <<>>
    /\ vrd_files = <<>>
    /\ output = <<>>
    /\ NoDedup
    /\ NoPipe
    /\ NoTags
    /\ NoOut

NextMain ==
    \/ ReadTimes \/ SortFiles \/ ReadContents
    \/ DedupCall \/ DedupSkip \/ DedupFile \/ DedupReturn
    \/ CompressAllBegin \/ UnsupportedFormat
    \/ CompressFileMd \/ ProcessFileVrd \/ CompressAllEndMd \/ BuildVrdOutput
    \/ UpdateVrdMetadata

SpecMain == InitMain /\ [][NextMain]_vars

\* the contents of the files that were read, in the order they were read
ContentsRead == FilesRead(files_with_time)

\* the deduplicator has run to its end on all of them
DedupCompleted ==
    /\ pc # "dedup"
    /\ Len(dedup_input) = Len(ContentsRead)
    /\ Len(deduplicated) = Len(ContentsRead)

\* every document handed to the compressor carried the text of deduped
CompressedTextIs(deduped) ==
    \A k \in 1..Len(compress_calls) : compress_calls[k].content = deduped[k].content

\* C3 as stated: at every level and in both formats, once a document has been
\* handed to the compressor the deduplicator has completed its pass over all
\* documents, and the text handed over is the deduplicated text.
C3_DedupBeforeCompress ==
    compress_calls # <<>> =>
        /\ DedupCompleted
        /\ CompressedTextIs(remove_duplicate_content(ContentsRead))

\* C3, amended: at the levels medium, high and extreme and in both formats, once a
\* document has been handed to the compressor the deduplicator has completed its
\* pass over all documents and the text handed over is the deduplicated text; at
\* level low the deduplicator is not run and the text handed over is the text read.
C3_DedupBeforeCompressAboveLow ==
    compress_calls # <<>> =>
        IF args.level = "low"
        THEN dedup_input = <<>> /\ CompressedTextIs(ContentsRead)
        ELSE DedupCompleted /\ CompressedTextIs(remove_duplicate_content(ContentsRead))

\* two documents with the same long paragraph at level high: the second reached
\* the compressor without it
C3_Witness ==
    /\ args.level = "high"
    /\ Len(ContentsRead) = 2
    /\ ContentsRead[1].content = LongPara
    /\ ContentsRead[2].content = ShortPara \o <<NL>> \o LongPara
    /\ Len(compress_calls) = 2
    /\ compress_calls[2].content = ShortPara

\* the names of a vector of files
Names(files) == [k \in 1..Len(files) |-> files[k].name]

\* discovered file i is processed before discovered file j
Precedes(i, j) ==
    IF args.chronological /\ md_files[i].modified # md_files[j].modified
    THEN md_files[i].modified < md_files[j].modified
    ELSE i < j

\* the discovered files that can be processed
Processable == {i \in 1..Len(md_files) : md_files[i].metadata_ok /\ md_files[i].readable}

\* their names in processing order
ExpectedNames ==
    [k \in 1..Cardinality(Processable) |->
        md_files[CHOOSE i \in Processable :
                     Cardinality({j \in Processable : Precedes(j, i)}) = k - 1].name]

IsPrefix(p, v) == Len(p) <= Len(v) /\ p = SubSeq(v, 1, Len(p))

\* the file names of the record lines (F:...) of a payload
RecordNames(payload) ==
    LET ls == SelectSeq(Split(payload, NL),
                        LAMBDA l : Len(l) >= 2 /\ SubSeq(l, 1, 2) = <<"F", ":">>)
    IN  [k \in 1..Len(ls) |->
            LET bar == IndexOf(ls[k], <<"|">>, 1)
            IN  SubSeq(ls[k], 3, IF bar = 0 THEN Len(ls[k]) ELSE bar - 1)]

\* C4: the documents are processed in one determined order: by non-decreasing
\* modification time with ties in discovery order when chronological, in
\* discovery order otherwise; the deduplicator visits them in that order and the
\* records of the markdown and of the VRD payload are in that order.
C4_DocumentOrder ==
    /\ pc \notin {"read_times", "read_sort", "read_contents"} =>
           /\ Names(all_files_content) = ExpectedNames
           /\ args.chronological =>
                  \A k \in 1..(Len(all_files_content) - 1) :
                      all_files_content[k].modified <= all_files_content[k + 1].modified
    /\ pc = "dedup" =>
           Names(dedup_input) = ExpectedNames /\ IsPrefix(Names(deduplicated), ExpectedNames)
    /\ IsPrefix(Names(compress_calls), ExpectedNames)
    /\ IsPrefix(Names(vrd_files), ExpectedNames)
    /\ pc \in {"main_output", "vrd_built"} => RecordNames(output) = ExpectedNames

\* three files modified at 2, 1, 1 in chronological mode: the payload has the two
\* of time 1 in discovery order, then the first
C4_Witness ==
    /\ pc \in {"main_output", "vrd_built"}
    /\ args.chronological
    /\ Len(md_files) = 3
    /\ Processable = {1, 2, 3}
    /\ md_files[1].modified = 2 /\ md_files[2].modified = 1 /\ md_files[3].modified = 1
    /\ RecordNames(output) = <<FileNames[2], FileNames[3], FileNames[1]>>

\* read_all_files_with_sorting has returned
ReadDone == pc \notin {"read_times", "read_sort", "read_contents"}

\* the discovered files that can be processed, in discovery order
ProcessableFiles == SelectSeq(md_files, LAMBDA f : f.metadata_ok /\ f.readable)

\* the names of the discovered files whose metadata or content cannot be read
UnprocessableNames == {md_files[i].name : i \in (1..Len(md_files)) \ Processable}

\* the names of the discovered files whose metadata can be read and whose content
\* cannot
UnreadableNames ==
    {md_files[i].name :
        i \in {j \in 1..Len(md_files) : md_files[j].metadata_ok /\ ~md_files[j].readable}}

\* the files that failed are skipped, they are not counted and have no record in
\* the payload, and the others are all processed, in their order
FailedFilesSkipped ==
    /\ ReadDone =>
           /\ Names(all_files_content) = ExpectedNames
           /\ stats.original_size = SizeOf(ProcessableFiles)
           /\ stats.original_lines = LinesOf(ProcessableFiles)
    /\ pc \in {"main_output", "vrd_built"} => RecordNames(output) = ExpectedNames

\* C17: a document whose metadata or content cannot be read is skipped and
\* reported; it adds nothing to original_size, to original_lines or to the
\* payload, and every other document is processed, in its original relative
\* order.
C17_ReadFailureIsolated ==
    /\ FailedFilesSkipped
    /\ ReadDone => (Range(errors) = UnprocessableNames /\ Len(errors) = Cardinality(UnprocessableNames))

\* the same, with a report for the files whose content cannot be read and none
\* for those whose metadata cannot be read
ReadFailureIsolatedContentReported ==
    /\ FailedFilesSkipped
    /\ ReadDone => (Range(errors) = UnreadableNames /\ Len(errors) = Cardinality(UnreadableNames))

-----------------------------------------------------------------------------
(* generate_vrd_content on its own: compress_all_content in the VRD format  *)
(* on at most MaxVrdDocs documents, among them documents whose name or      *)
(* text is the metadata placeholder, at every level.                        *)

MaxVrdDocs == 2

\* a file name that contains the placeholder
PlaceholderName == MetaPlaceholder \o <<".", "m", "d">>

VrdDocs ==
    {[name |-> FileNames[1], content |-> <<"s", "o", "m", "e", " ", "t", "e", "x", "t">>, modified |-> 1],
     [name |-> FileNames[2], content |-> <<>>, modified |-> 1],
     [name |-> PlaceholderName, content |-> <<"t", "e", "x", "t">>, modified |-> 2],
     [name |-> FileNames[3], content |-> MetaPlaceholder, modified |-> 2],
     [name |-> FileNames[4],
      content |-> <<"#", " ", "T", "i", "t", "l", "e", "\n">> \o MetaPlaceholder \o <<"\n", "e", "n", "d">>,
      modified |-> 1]}

\* the documents main() hands to compress_all_content: at level low as they
\* were read, at the other levels as the deduplicator leaves them
HandedOver(level, files) ==
    IF DedupWanted(level)
    THEN LET d == remove_duplicate_content(files)
         IN  [k \in 1..Len(files) |-> [files[k] EXCEPT !.content = d[k].content]]
    ELSE files

InitVrd ==
    /\ pc = "main_compress"
    /\ args \in [level : Levels, model : {"claude"}, ai_mode : {FALSE}, no_emojis : {TRUE},
                 chronological : {TRUE}, format : {"vrd"}]
    /\ md_files = <<>>
    /\ files_with_time = <<>>
    /\ \E n \in 0..MaxVrdDocs : \E fs \in [1..n -> VrdDocs] :
         all_files_content = HandedOver(args.level, fs)
    /\ compress_calls = <<>>
    /\ vrd_files = <<>>
    /\ output = <<>>
    /\ NoDedup
    /\ NoPipe
    /\ NoTags
    /\ NoOut

NextVrd == CompressAllBegin \/ ProcessFileVrd \/ BuildVrdOutput \/ UpdateVrdMetadata

SpecVrd == InitVrd /\ [][NextVrd]_vars

\* generate_vrd_content has returned
VrdReturned == pc = "main_output" /\ args.format = "vrd"

\* C11: the VRD payload generate_vrd_content returns never contains the literal
\* metadata placeholder, whatever the documents, their names and the level.
C11_NoPlaceholderLeft ==
    VrdReturned => ~Contains(output, MetaPlaceholder)

\* a payload was built with the placeholder in a record line as well as in the
\* metadata line, and was returned
C11_Witness ==
    /\ VrdReturned
    /\ Len(all_files_content) = 2
    /\ all_files_content[2].name = PlaceholderName
    /\ Len(AllMatches(Lit(MetaPlaceholder), vrd_content)) = 2

\* the lines of text other than its second
OtherLines(text) ==
    LET ls == Split(text, NL)
    IN  [k \in 1..(Len(ls) - 1) |-> IF k = 1 THEN ls[1] ELSE ls[k + 1]]

\* C12: the metadata substitution changes only the metadata line, the second line
\* of the payload: every other line, the record lines (F:, H:, C:, X:) among them,
\* is the same before and after it, also for documents whose name or text contains
\* the placeholder.
C12_OnlyMetadataLineChanged ==
    VrdReturned => OtherLines(output) = OtherLines(vrd_content)

\* C13: the numbers written into the metadata line are those of the payload that
\* is returned: tokens is its byte length divided by 4, compressed is
\* (original - its byte length) / original * 100 to one decimal, 0.0 when the
\* original size is 0.
C13_NumbersOfFinalPayload ==
    VrdReturned =>
        Split(output, NL)[2] \in
            MetadataTexts(VrdMetadata(all_files_content, ByteLen(output),
                                      SizeOf(all_files_content), metadata.generated))

\* the numbers are those of the payload as built, with the placeholder in it
NumbersOfBuiltPayload ==
    VrdReturned =>
        /\ metadata.estimated_tokens = ByteLen(vrd_content) \div 4
        /\ metadata.files_count = Len(all_files_content)
        /\ metadata.compression_ratio.den = SizeOf(all_files_content)
        /\ metadata.compression_ratio.den > 0 =>
               metadata.compression_ratio.num = SizeOf(all_files_content) - ByteLen(vrd_content)

-----------------------------------------------------------------------------
(* The output stage: compress_all_content and then create_chunks or         *)
(* write_single_file, in both formats, for line budgets 0..MaxBudget,       *)
(* WideBudget, the default and the largest of usize, with at most           *)
(* MaxWriteFailures failed writes.                                          *)

MaxBudget == 3

WideBudget == 8

\* 33: default_value of max_lines
DefaultBudget == 800

\* budgets at the top of usize: usize::MAX, the budget that added to a payload
\* of WideBudget + 1 lines gives 2^64, and one that no payload here brings
\* out of range
HugeBudgets == {Huge(1), Huge(WideBudget + 1), Huge(DefaultBudget)}

ChunkBudgets == (0..MaxBudget) \cup {WideBudget, DefaultBudget} \cup HugeBudgets

\* 17: the default output path, and one that contains "chunk"
OutputPaths == {<<"c", "o", "m", "p", "r", "e", "s", "s", "e", "d">>, <<"c", "h", "u", "n", "k", "e", "d">>}

DocA == [name |-> FileNames[1], content |-> <<"a", "l", "p", "h", "a", "\n", "b", "e", "t", "a", "\n", "g", "a", "m", "m", "a">>, modified |-> 1]

DocB == [name |-> FileNames[2], content |-> <<"o", "n", "e", "\n", "t", "w", "o", "\n", "t", "h", "r", "e", "e">>, modified |-> 1]

DocC == [name |-> FileNames[3], content |-> <<"x", "\n", "y">>, modified |-> 2]

\* a document that quotes the CHUNKS field of a header
DocH == [name |-> FileNames[4], content |-> <<"s", "e", "e", " ", "C", "H", "U", "N", "K", "S", ":", "1", "/", "1", "\n", "n", "o", "t", " ", "C", "H", "U", "N", "K", "S", ":", "2", "/", "3">>, modified |-> 2]

\* no document; one; three that make a markdown payload of 17 lines; the one
\* that quotes the CHUNKS field
ChunkDocSets == {<<>>, <<DocA>>, <<DocA, DocB, DocC>>, <<DocH>>}

InitChunks ==
    /\ pc = "main_compress"
    /\ \E format \in {"md", "vrd"}, path \in OutputPaths, chunk \in BOOLEAN :
       \E budget \in (IF chunk THEN ChunkBudgets ELSE {DefaultBudget}) :
         args = [level |-> "medium", model |-> "claude", ai_mode |-> FALSE,
                 no_emojis |-> TRUE, chronological |-> TRUE, format |-> format,
                 output |-> path, chunk |-> chunk, max_lines |-> budget]
    /\ md_files = <<>>
    /\ files_with_time = <<>>
    /\ \E fs \in ChunkDocSets :
         /\ all_files_content = HandedOver(args.level, fs)
         /\ stats = [ZeroStats EXCEPT !.original_size = SizeOf(fs),
                                      !.original_lines = LinesOf(fs)]
    /\ compress_calls = <<>>
    /\ vrd_files = <<>>
    /\ output = <<>>
    /\ errors = <<>>
    /\ chunk_num = 0
    /\ chunk_files = <<>>
    /\ vrd_content = <<>>
    /\ metadata = NoMetadata
    /\ NoDedup
    /\ NoPipe
    /\ NoTags

NextChunks ==
    \/ CompressAllBegin \/ CompressFileMd \/ ProcessFileVrd \/ CompressAllEndMd
    \/ BuildVrdOutput \/ UpdateVrdMetadata
    \/ CreateChunksBegin \/ CreateChunksPanic \/ WriteChunk \/ CreateChunksEnd
    \/ WriteSingleFile

SpecChunks == InitChunks /\ [][NextChunks]_vars

\* create_chunks has returned
ChunksDone == pc = "main_stats" /\ args.chunk

\* ceil(l / b) for a budget b >= 1 and a line count l of the model
CeilDiv(l, b) ==
    IF IsHuge(b) THEN (IF l = 0 THEN 0 ELSE 1)
    ELSE IF l % b = 0 THEN l \div b ELSE l \div b + 1

\* the lines chunk i of n carries when l lines are split with budget b
WindowSize(l, b, i, n) == IF i < n THEN b ELSE l - b * (n - 1)

\* the payload lines a markdown chunk file carries: its lines between the CHUNK
\* line and the two lines of the footer
CarriedLines(content) ==
    LET ls == Split(content, NL)
    IN  SubSeq(ls, 2, Len(ls) - 2)

\* the chunk files are the n windows of the payload's L lines for budget B
Partitioned(L, B, n) ==
    /\ Len(chunk_files) = n
    /\ stats.chunks_created = n
    /\ \A i \in 1..Len(chunk_files) : Len(chunk_files[i].lines) = WindowSize(L, B, i, n)
    /\ Flatten([i \in 1..Len(chunk_files) |-> chunk_files[i].lines]) = Lines(output)
    /\ \A i \in 1..Len(chunk_files) :
         IF args.format = "md"
         THEN CarriedLines(chunk_files[i].content) = chunk_files[i].lines
         ELSE Len(Split(chunk_files[i].content, NL)) = Len(chunk_files[i].lines)

\* C14: a payload of L >= 1 lines and a budget B >= 1 give ceil(L/B) chunks; each
\* but the last carries B payload lines, the last carries L - B*(ceil(L/B)-1), and
\* the chunks' payload lines, concatenated in chunk order, are the payload's lines.
C14_ChunkPartition ==
    /\ (pc = "panic" /\ Len(Lines(output)) >= 1) => args.max_lines = 0
    /\ (ChunksDone /\ Len(Lines(output)) >= 1) =>
           Partitioned(Len(Lines(output)), args.max_lines,
                       CeilDiv(Len(Lines(output)), args.max_lines))

\* what holds instead: the partition is as said when total_lines + chunk_size
\* stays in the range of usize, and create_chunks panics only when it does not
\* or when the budget is 0
ChunkPartitionInRange ==
    /\ pc = "panic" =>
           \/ args.max_lines = 0
           \/ AddOverflows(Len(Lines(output)), args.max_lines)
    /\ (ChunksDone /\ ~AddOverflows(Len(Lines(output)), args.max_lines)) =>
           Partitioned(Len(Lines(output)), args.max_lines,
                       CeilDiv(Len(Lines(output)), args.max_lines))

\* without overflow checks a payload of more lines than the budget lacks to 2^64
\* is split into no chunk at all
NoChunkAfterWrap ==
    /\ ChunksDone
    /\ IsHuge(args.max_lines)
    /\ Len(Lines(output)) >= 2
    /\ chunk_files = <<>>
    /\ stats.chunks_created = 0

\* a payload of 17 lines was split with a budget of 8 into chunks of 8, 8 and 1
\* lines
C14_Witness ==
    /\ ChunksDone
    /\ Len(Lines(output)) = 17
    /\ args.max_lines = 8
    /\ [i \in 1..Len(chunk_files) |-> Len(chunk_files[i].lines)] = <<8, 8, 1>>

NextMark == <<"N", "E", "X", "T", ":">>

\* chunk i refers to the file of chunk i + 1, the last chunk to none
ChunksLinked ==
    \A i \in 1..Len(chunk_files) :
        IF i < Len(chunk_files)
        THEN Contains(chunk_files[i].content, NextMark \o chunk_files[i + 1].name)
        ELSE ~Contains(chunk_files[i].content, NextMark)

\* C15: in markdown and in VRD output, for every chunk count n, each chunk i < n
\* contains a NEXT: reference to the file name chunk i + 1 is written under, and
\* chunk n contains no NEXT: reference.
C15_NextReferences ==
    ChunksDone => ChunksLinked

\* the markdown chunks are linked as C15 says
MdChunksLinked ==
    (ChunksDone /\ args.format = "md") => ChunksLinked

\* the header line of chunk i of n: the payload's header with its CHUNKS field
\* rewritten, and after it nothing or a NEXT reference
IsChunkHeader(line, i, n) ==
    LET head == <<"V", "R", "D", "1", ".", "0", "|", "T", "A", "R", "G", "E", "T", ":">>
                \o ToUpper(Chars(args.model)) \o <<"|", "M", "O", "D", "E", ":">>
                \o ToUpper(Chars(args.level)) \o <<"|">> \o ChunksField(i, n)
    IN  /\ Len(line) >= Len(head)
        /\ SubSeq(line, 1, Len(head)) = head
        /\ \/ Len(line) = Len(head)
           \/ SubSeq(line, Len(head) + 1, Len(line))
                  = <<"|">> \o NextMark \o ChunkFilename(args, i + 1)

VrdMark == <<"V", "R", "D", "1", ".", "0", "|">>

\* C16: when a VRD payload is split into n chunks, the first line of every chunk i
\* is one VRD header line carrying CHUNKS:<i>/<n>, no other line of the chunk is a
\* header, and every other line is the payload line it was.
C16_ChunkHeaders ==
    (ChunksDone /\ args.format = "vrd") =>
        \A i \in 1..Len(chunk_files) :
            LET ls == Split(chunk_files[i].content, NL)
            IN  /\ IsChunkHeader(ls[1], i, Len(chunk_files))
                /\ \A k \in 2..Len(ls) :
                     /\ ~Contains(ls[k], VrdMark)
                     /\ ls[k] = chunk_files[i].lines[k]

\* the first chunk of a VRD payload begins with the rewritten header
FirstChunkHeader ==
    (ChunksDone /\ args.format = "vrd" /\ chunk_files # <<>>) =>
        IsChunkHeader(Split(chunk_files[1].content, NL)[1], 1, Len(chunk_files))

\* the chunk files whose write succeeded
WrittenFiles == SelectSeq(chunk_files, LAMBDA f : f.written)

\* C18: a failed write of a chunk does not end the run: every chunk is attempted,
\* in order, under its own name; the failures are reported, file by file; and
\* compressed_size and compressed_lines are the sums over the chunks whose write
\* succeeded.
C18_WriteFailureIsolated ==
    ChunksDone =>
        /\ Len(chunk_files) = TotalChunks(Len(Lines(output)), args.max_lines)
        /\ \A i \in 1..Len(chunk_files) : chunk_files[i].name = ChunkFilename(args, i)
        /\ errors = [k \in 1..Len(FailedWrites) |-> FailedWrites[k].name]
        /\ stats.compressed_size = SizeOf(WrittenFiles)
        /\ stats.compressed_lines = LinesOf(WrittenFiles)

\* the write of the first of three chunks failed and the two after it succeeded
C18_Witness ==
    /\ ChunksDone
    /\ Len(chunk_files) = 3
    /\ ~chunk_files[1].written
    /\ chunk_files[2].written /\ chunk_files[3].written
    /\ errors = <<chunk_files[1].name>>
    /\ stats.compressed_size = ByteLen(chunk_files[2].content) + ByteLen(chunk_files[3].content)

\* C23: create_chunks never fails, whatever the line budget (0 included), and
\* the chunk count it records is the number of chunks it has produced
C23_ChunkSplitterTotal ==
    /\ pc # "panic"
    /\ ChunksDone => stats.chunks_created = Len(chunk_files)

\* what holds instead: create_chunks panics only with a budget of 0 or one that
\* takes total_lines + chunk_size out of the range of usize; when it ends it has
\* recorded the number of chunks it produced, which is ceil(lines / budget) when
\* the sum is in range
ChunkSplitterTotalPositiveBudget ==
    /\ pc = "panic" =>
           /\ args.chunk
           /\ \/ args.max_lines = 0
              \/ AddOverflows(Len(Lines(output)), args.max_lines)
    /\ ChunksDone => /\ args.max_lines # 0
                     /\ stats.chunks_created = Len(chunk_files)
                     /\ \/ AddOverflows(Len(Lines(output)), args.max_lines)
                        \/ stats.chunks_created =
                               CeilDiv(Len(Lines(output)), args.max_lines)

-----------------------------------------------------------------------------
(* The records of a VRD payload: generate_vrd_content on at most             *)
(* MaxRecordDocs of the documents below, at every level.                     *)

MaxRecordDocs == 2

\* a plain document; one whose second line begins with F:; one whose second
\* line begins with a word the tier-high table shortens to F:; one with a fenced
\* block whose code begins with F:, a blank line and a line of text
RecordDocs ==
    {[name |-> FileNames[1], content |-> <<"p", "l", "a", "i", "n", " ", "t", "e", "x", "t">>,
      modified |-> 1],
     [name |-> FileNames[2],
      content |-> <<"i", "n", "t", "r", "o", "\n", "F", ":", "n", "o", "t", "e", "s">>,
      modified |-> 1],
     [name |-> FileNames[3],
      content |-> <<"p", "l", "a", "n", "\n", "F", "e", "a", "t", "u", "r", "e", "s", " ",
                    "l", "i", "s", "t">>,
      modified |-> 2],
     [name |-> FileNames[4],
      content |-> Fence \o <<"\n", "F", ":", "x", "\n">> \o Fence
                  \o <<"\n", "\n", "a", "f", "t", "e", "r">>,
      modified |-> 2]}

InitRecords ==
    /\ pc = "main_compress"
    /\ args \in [level : Levels, model : {"claude"}, ai_mode : {FALSE}, no_emojis : {TRUE},
                 chronological : {TRUE}, format : {"vrd"}]
    /\ md_files = <<>>
    /\ files_with_time = <<>>
    /\ \E n \in 0..MaxRecordDocs : \E fs \in [1..n -> RecordDocs] :
         all_files_content = HandedOver(args.level, fs)
    /\ compress_calls = <<>>
    /\ vrd_files = <<>>
    /\ output = <<>>
    /\ NoDedup
    /\ NoPipe
    /\ NoTags
    /\ NoOut

NextRecords == CompressAllBegin \/ ProcessFileVrd \/ BuildVrdOutput \/ UpdateVrdMetadata

SpecRecords == InitRecords /\ [][NextRecords]_vars

\* the line begins with F:
IsFLine(line) == IsPrefix(<<"F", ":">>, line)

\* the places of the lines of ls that begin with F:, in order
FLinePlaces(ls) == SelectSeq([i \in 1..Len(ls) |-> i], LAMBDA i : IsFLine(ls[i]))

\* the lines ls hold one record per document of files: the lines beginning with
\* F: are the records' header lines in the order of files, the first follows the
\* line --- directly, each later one follows exactly one blank line, and there
\* is no other blank line
RecordsOf(ls, places, files) ==
    /\ Len(places) = Len(files)
    /\ \A k \in 1..Len(places) :
         /\ k <= Len(files) =>
              IsPrefix(<<"F", ":">> \o files[k].name \o <<"|", "D", ":">>, ls[places[k]])
         /\ IF k = 1 THEN ls[places[k] - 1] = <<"-", "-", "-">>
            ELSE ls[places[k] - 1] = <<>> /\ ls[places[k] - 2] = <<"|">>
    /\ Cardinality({i \in 1..Len(ls) : ls[i] = <<>>}) = (IF files = <<>> THEN 0 ELSE Len(files) - 1)

\* C22: in the VRD payload the lines beginning with F: are exactly the record
\* header lines, one per document in processing order; consecutive records are
\* separated by exactly one blank line, with none before the first; no body or
\* code text makes another line beginning with F:
C22_RecordBoundaries ==
    VrdReturned => RecordsOf(Lines(output), FLinePlaces(Lines(output)), all_files_content)

\* a line of the record's body after its first begins with F:
BodyHasFLine(file) ==
    \E i \in 2..Len(Split(Trim(file.content), NL)) : IsFLine(Split(Trim(file.content), NL)[i])

\* what holds instead: the boundaries are as said when no record's body has a
\* line after its first that begins with F:, and there are more lines beginning
\* with F: than documents when one has
RecordBoundariesWithoutFLines ==
    VrdReturned =>
        IF \E k \in 1..Len(vrd_files) : BodyHasFLine(vrd_files[k])
        THEN Len(FLinePlaces(Lines(output))) > Len(all_files_content)
        ELSE RecordsOf(Lines(output), FLinePlaces(Lines(output)), all_files_content)

====
